---- MODULE Spec2Model ----
(***************************************************************************)
(* PyonFX (src/pyonfx/core.py): one dialogue Line going through the        *)
(* extended decomposition of Ass.__init__                                  *)
(*   Line.from_text -> add_data -> add_words -> add_syls -> add_chars      *)
(* followed by any number of PList.strip_empty calls on its child lists.   *)
(*                                                                         *)
(* Text is a sequence of symbols.  A symbol is one character ("{", "}",    *)
(* a letter, a space) or one override tag taken as a whole ("\k50",        *)
(* "\kf30", "\i1"): the regular expressions of the code never split a tag  *)
(* token of the alphabet used here.  Times are integers in milliseconds    *)
(* (the code holds seconds), lengths are integers in pixels; every length  *)
(* the model draws is even, so each "/ 2" of the code is exact.            *)
(***************************************************************************)
EXTENDS Integers, Sequences, FiniteSets, TLC

VARIABLES
    pc,              \* position in Ass.__init__'s per-line pipeline
    src,             \* the fields of the Dialogue line as split by from_text
    style,           \* the Style the line refers to
    meta,            \* Meta: script_info.play_res_x / play_res_y, fps
    font,            \* the Font collaborator (extents of a letter, a space)
    vertical_kanji,  \* Ass.__init__'s vertical_kanji argument
    fix_timestamps,  \* Ass.__init__'s fix_timestamps argument
    line,            \* the Line object (fields appear as they are assigned)
    words,           \* line.words
    syls,            \* line.syls
    chars,           \* line.chars
    ret,             \* what the last strip_empty call returned (None or a PList)
    stripped,        \* the lists strip_empty has been applied to, and how
    \* -- the document: Ass.__init__, Ass.add_line, Ass.save
    apc,             \* position in the life of the Ass object
    input_,          \* the input file: its sections, each a header and its lines
    extended,        \* Ass.__init__'s extended argument
    sections,        \* self._sections
    ameta,           \* self.meta
    heap,            \* the Style objects allocated so far, by identity
    styles,          \* self.styles: identities of Style objects
    lines,           \* self._lines
    log,             \* what logger.user_warning was called for
    output_lines,    \* self._output_lines
    written,         \* the output file save wrote: its lines, in order
    \* -- the schema marshaller: _MetaData.from_text, _MetaData.as_text
    mpc,             \* position: "new", "decoded", "encoded" or "err_from_text"
    cls,             \* the record class: ScriptInfo or ProjectGarbage
    mtext,           \* the text of the section, a sequence of lines
    record,          \* the record from_text built
    encoded,         \* what as_text returned for it
    \* -- Style.resample
    rstyle,          \* the Style object resample is called on
    rorig,           \* its fields as Style.from_text built them
    rargs,           \* the source kind, its ScriptInfo flag, the scaled_border_and_shadow argument
    rres,            \* the two resolutions the calls go between
    rcalls,          \* the calls made so far: source, target, the fields before the call
    \* -- _AssText.shift_time, shift_time0, change_fps (on the Line in line)
    tcalls,          \* the calls made so far on the line: method and arguments
    \* -- _styles_to_map and the edits of the document's style list
    cache,           \* the lru_cache of _styles_tuple_to_map: keys and the maps built for them
    smap,            \* the map the last _styles_to_map call returned
    serr,            \* the exception the last clean_styles call raised, "" for none
    nedits,          \* how many times the style list or a style's name was edited
    \* -- _AssText.to_shape, to_clip (on the lines of the document)
    shape            \* the Shape the last to_shape or to_clip call returned

linevars == <<pc, src, style, meta, line, words, syls, chars, ret, stripped>>

docvars == <<apc, input_, extended, sections, ameta, heap, styles, lines, log,
             output_lines, written>>

metavars == <<mpc, cls, mtext, record, encoded>>

resvars == <<rstyle, rorig, rargs, rres, rcalls>>

\* the variables of the operations on a built object
timevars == <<tcalls>>

mapvars == <<cache, smap, serr, nedits>>

shapevars == <<shape>>

toolvars == <<resvars, timevars, mapvars, shapevars>>

vars == <<pc, src, style, meta, font, vertical_kanji, fix_timestamps,
          line, words, syls, chars, ret, stripped, docvars, metavars, toolvars>>

inputs == <<src, style, meta, font, vertical_kanji, fix_timestamps>>

\* the arguments every part of the model shares
argvars == <<font, vertical_kanji, fix_timestamps>>

-----------------------------------------------------------------------------
(* Bounds *)

MaxSegs == 4         \* longest raw text of Spec, in segments (see Segments)
LayoutSegs == 2      \* longest raw text of SpecLayout, in segments (see Units)
MaxMetaLines == 2    \* most lines of a [Script Info] / [Aegisub Project Garbage] text
MaxEvents == 3       \* most lines under [Events]
MaxOut == 2          \* most lines add_line is called for
MaxResamples == 2    \* most resample calls on one Style
MaxShifts == 2       \* most shift_time / shift_time0 / change_fps calls on one line
MaxEdits == 2        \* most edits of the style list of one document

-----------------------------------------------------------------------------
(* Generic helpers *)

Max(a, b) == IF a >= b THEN a ELSE b

RECURSIVE SumSeq(_)
SumSeq(s) == IF s = <<>> THEN 0 ELSE Head(s) + SumSeq(Tail(s))

RECURSIVE MaxSeq(_)
\* max() of a non-empty sequence of numbers
MaxSeq(s) == IF Len(s) = 1 THEN s[1] ELSE Max(Head(s), MaxSeq(Tail(s)))

Field(s, f) == [k \in 1..Len(s) |-> s[k][f]]

\* record r extended (or overwritten) with the fields of record e
Ext(r, e) ==
    [f \in (DOMAIN r) \cup (DOMAIN e) |-> IF f \in DOMAIN e THEN e[f] ELSE r[f]]

-----------------------------------------------------------------------------
(* Symbols *)

KMarkers == {"\\k0", "\\k50", "\\kf30"}
OtherTags == {"\\i1"}
Letters == {"a"}
Alphabet == {"{", "}", " "} \cup Letters \cup KMarkers \cup OtherTags

\* the (?P<kdur>\d+) of a karaoke marker, in centiseconds
KDur(tok) == CASE tok = "\\k0" -> 0
               [] tok = "\\k50" -> 50
               [] tok = "\\kf30" -> 30

IsSpace(c) == c = " "

\* str.replace(a + b, ''): left to right, non-overlapping
RECURSIVE RemovePair(_, _, _)
RemovePair(s, a, b) ==
    IF Len(s) < 2 THEN s
    ELSE IF s[1] = a /\ s[2] = b THEN RemovePair(SubSeq(s, 3, Len(s)), a, b)
    ELSE <<s[1]>> \o RemovePair(Tail(s), a, b)

\* str.replace('\\k', '}{\\k')
RECURSIVE SplitAtK(_)
SplitAtK(s) ==
    IF s = <<>> THEN <<>>
    ELSE IF Head(s) \in KMarkers THEN <<"}", "{", Head(s)>> \o SplitAtK(Tail(s))
    ELSE <<Head(s)>> \o SplitAtK(Tail(s))

\* raw_text.replace('}{', '').replace('\\k', '}{\\k').replace('{}', '')
KaraokeText(raw) == RemovePair(SplitAtK(RemovePair(raw, "}", "{")), "{", "}")

\* smallest index >= from of a symbol of s in set S, 0 when there is none
FirstIn(s, from, S) ==
    IF \E k \in from..Len(s) : s[k] \in S
    THEN CHOOSE k \in from..Len(s) : s[k] \in S /\ \A j \in from..(k - 1) : s[j] \notin S
    ELSE 0

\* re.sub(r"\{.*?\}", "", text)
RECURSIVE StripTags(_)
StripTags(s) ==
    LET o == FirstIn(s, 1, {"{"})
        c == IF o = 0 THEN 0 ELSE FirstIn(s, o + 1, {"}"})
    IN  IF c = 0 THEN s
        ELSE SubSeq(s, 1, o - 1) \o StripTags(SubSeq(s, c + 1, Len(s)))

-----------------------------------------------------------------------------
(* The inputs the model draws *)

\* raw texts are concatenations of these: tag blocks, a letter, a space
Segments ==
    { <<"{", "\\k50", "}">>, <<"{", "\\k0", "}">>, <<"{", "\\i1", "\\kf30", "}">>,
      <<"{", "\\i1", "}">>, <<"a">>, <<" ">> }

\* coarser pieces for the layout runs: a plain word, two syllables
Units ==
    { <<"a", " ">>,
      <<"{", "\\k50", "}", "a">>, <<"{", "\\kf30", "}", " ", "a", "a", " ">> }

RECURSIVE Concat(_)
Concat(ss) == IF ss = <<>> THEN <<>> ELSE Head(ss) \o Concat(Tail(ss))

TextsOf(segs, n) == {Concat(ss) : ss \in UNION {[1..k -> segs] : k \in 0..n}}

\* H:MM:SS.CC timestamps as <<H, MM, SS, CC>>
StartStamps == {<<0, 0, 1, 0>>}
EndStamps == {<<0, 0, 1, 0>>, <<0, 0, 1, 50>>}

Alignments == 1..9
Spacings == {0, 2}

\* <<margin_l, margin_r, margin_v>> of the line and of its style
InheritedMargins == << <<0, 0, 0>>, <<10, 20, 30>> >>
MarginCases ==
    { << <<0, 0, 0>>, <<0, 0, 0>> >>, InheritedMargins,
      << <<4, 0, 6>>, <<10, 20, 30>> >>, << <<0, 4, 0>>, <<10, 20, 30>> >>,
      << <<4, 4, 4>>, <<10, 20, 30>> >> }

\* the Style of the line: the fields the layout reads
StyleOf(an, sp, mg) ==
    [name |-> "Default", alignment |-> an, spacing |-> sp,
     margin_l |-> mg[1], margin_r |-> mg[2], margin_v |-> mg[3]]

\* Meta: ScriptInfo's PlayResX / PlayResY and the frame rate
MetaOf == [play_res_x |-> 1920, play_res_y |-> 1080, fps |-> 25]

\* the Font collaborator: advance of a letter and of a space, line height
FontOf == [letter |-> 100, space |-> 40, height |-> 60]

-----------------------------------------------------------------------------
(* Style: alignment classes *)

an_is_left(st) == st.alignment \in {1, 4, 7}

\* mutant: alignment 1 counted as centred too
an_is_center_Wide(st) == st.alignment \in {1, 2, 5, 8}

an_is_center(st) == st.alignment \in {2, 5, 8}
an_is_right(st) == st.alignment \in {3, 6, 9}
an_is_top(st) == st.alignment \in {7, 8, 9}
an_is_middle(st) == st.alignment \in {4, 5, 6}
an_is_bottom(st) == st.alignment \in {1, 2, 3}

-----------------------------------------------------------------------------
(* Font and Time collaborators *)

CharWidth(c) == IF IsSpace(c) THEN font.space ELSE font.letter

\* font.text_extents(text) -> (width, height)
TextExtents(text) ==
    [width |-> SumSeq([k \in 1..Len(text) |-> CharWidth(text[k])]),
     height |-> font.height]

\* Time + x and Time - x: never negative
TimeAdd(a, b) == Max(0, a + b)
TimeSub(a, b) == Max(0, a - b)

\* Time.from_ts("H:MM:SS.CC")
FromTs(ts) == ((ts[1] * 60 + ts[2]) * 60 + ts[3]) * 1000 + ts[4] * 10

\* Time.from_assts(ts, fps, is_start): snapped to a frame boundary
FromAssTs(ts, fps, is_start) ==
    LET t == FromTs(ts)
        frame == 1000 \div fps
        down == (t \div frame) * frame
    IN  IF is_start \/ down = t THEN down ELSE down + frame

\* int(kdur) / 100: centiseconds to the time unit
CsToSec(kdur) == kdur * 10

-----------------------------------------------------------------------------
(* Line.from_text *)

FromTextLine(s, fps, fix) ==
    LET st == IF fix THEN FromAssTs(s.start, fps, TRUE) ELSE FromTs(s.start)
        en == IF fix THEN FromAssTs(s.end, fps, FALSE) ELSE FromTs(s.end)
    IN  [i |-> 0, comment |-> FALSE, layer |-> 0,
         start_time |-> st, end_time |-> en, duration |-> TimeSub(en, st),
         actor |-> "", margin_l |-> s.margin_l, margin_r |-> s.margin_r,
         margin_v |-> s.margin_v, effect |-> "",
         raw_text |-> s.raw_text, text |-> s.raw_text]

FromText ==
    /\ pc = "new"
    /\ line' = FromTextLine(src, meta.fps, fix_timestamps)
    /\ pc' = "parsed"
    /\ UNCHANGED <<inputs, words, syls, chars, ret, stripped>>
    /\ UNCHANGED <<docvars, metavars, toolvars>>

-----------------------------------------------------------------------------
(* Line.add_data *)

\* a margin of 0 on the line takes the style's
EffMargin(lineMargin, styleMargin) == IF lineMargin # 0 THEN lineMargin ELSE styleMargin

\* mutant: the centred case leaves the margins out
LineHorizontal_NoMargins(st, play_res_x, width, margin_l, margin_r) ==
    LET left == IF an_is_left(st) THEN margin_l
                ELSE IF an_is_center(st) THEN play_res_x \div 2 - width \div 2
                     ELSE play_res_x - margin_r - width
        center == left + width \div 2
        right == left + width
    IN  [left |-> left, center |-> center, right |-> right,
         x |-> IF an_is_left(st) THEN left
               ELSE IF an_is_center(st) THEN center ELSE right]

\* left / center / right / x of the line
LineHorizontal(st, play_res_x, width, margin_l, margin_r) ==
    LET left == IF an_is_left(st) THEN margin_l
                ELSE IF an_is_center(st)
                     THEN play_res_x \div 2 - width \div 2 + margin_l \div 2 - margin_r \div 2
                     ELSE play_res_x - margin_r - width
        center == left + width \div 2
        right == left + width
    IN  [left |-> left, center |-> center, right |-> right,
         x |-> IF an_is_left(st) THEN left
               ELSE IF an_is_center(st) THEN center ELSE right]

\* top / middle / bottom / y of the line
LineVertical(st, play_res_y, height, margin_v) ==
    LET top == IF an_is_top(st) THEN margin_v
               ELSE IF an_is_middle(st) THEN play_res_y \div 2 - height \div 2
                    ELSE play_res_y - margin_v - height
        middle == top + height \div 2
        bottom == top + height
    IN  [top |-> top, middle |-> middle, bottom |-> bottom,
         y |-> IF an_is_top(st) THEN top
               ELSE IF an_is_middle(st) THEN middle ELSE bottom]

AddDataLine(l, st, m) ==
    LET text == StripTags(l.raw_text)
        ext == TextExtents(text)
        l1 == Ext(l, [text |-> text, width |-> ext.width, height |-> ext.height])
        h == LineHorizontal(st, m.play_res_x, ext.width,
                            EffMargin(l.margin_l, st.margin_l),
                            EffMargin(l.margin_r, st.margin_r))
        v == LineVertical(st, m.play_res_y, ext.height,
                          EffMargin(l.margin_v, st.margin_v))
    IN  Ext(Ext(l1, h), v)

AddData ==
    /\ pc = "parsed"
    /\ line' = AddDataLine(line, style, meta)
    /\ pc' = "data"
    /\ UNCHANGED <<inputs, words, syls, chars, ret, stripped>>
    /\ UNCHANGED <<docvars, metavars, toolvars>>

-----------------------------------------------------------------------------
(* Line.add_words *)

RECURSIVE LeadSpaces(_)
\* length of the run of whitespace text starts with
LeadSpaces(t) == IF t = <<>> \/ ~IsSpace(Head(t)) THEN 0 ELSE 1 + LeadSpaces(Tail(t))

RECURSIVE LeadText(_)
\* length of the run of non-whitespace text starts with
LeadText(t) == IF t = <<>> \/ IsSpace(Head(t)) THEN 0 ELSE 1 + LeadText(Tail(t))

RECURSIVE TrailSpaces(_)
TrailSpaces(t) ==
    IF t = <<>> \/ ~IsSpace(t[Len(t)]) THEN 0
    ELSE 1 + TrailSpaces(SubSeq(t, 1, Len(t) - 1))

IsBlank(t) == \A k \in 1..Len(t) : IsSpace(t[k])

RECURSIVE WordMatches(_)
\* re.finditer(r"(\s*)([^\s]+)(\s*)", text): the groups of each match
WordMatches(t) ==
    LET pre == LeadSpaces(t)
        t1 == SubSeq(t, pre + 1, Len(t))
        n == LeadText(t1)
        t2 == SubSeq(t1, n + 1, Len(t1))
        post == LeadSpaces(t2)
    IN  IF n = 0 THEN <<>>
        ELSE <<[prespace |-> pre, text |-> SubSeq(t1, 1, n), postspace |-> post]>>
             \o WordMatches(SubSeq(t2, post + 1, Len(t2)))

\* the Word objects before they are positioned
NewWords(l) ==
    LET ms == WordMatches(l.text)
    IN  [wi \in 1..Len(ms) |->
            [i |-> wi - 1,
             start_time |-> l.start_time, end_time |-> l.end_time,
             duration |-> l.duration,
             text |-> ms[wi].text,
             prespace |-> ms[wi].prespace, postspace |-> ms[wi].postspace,
             width |-> TextExtents(ms[wi].text).width,
             height |-> TextExtents(ms[wi].text).height]]

\* x of a word or syllable out of its left / center / right
UnitX(st, left, center, right) ==
    IF an_is_left(st) THEN left ELSE IF an_is_center(st) THEN center ELSE right

\* the cursor of the word pass before and after a word
WordPreAdvance(w, space_width, st) == w.prespace * space_width + st.spacing
WordPostAdvance(w, space_width, st) ==
    w.width + w.postspace * (space_width + st.spacing) + st.spacing

RECURSIVE WordsLTR(_, _, _, _, _)
\* the left-to-right loop of add_words
WordsLTR(ws, cur_x, l, st, space_width) ==
    IF ws = <<>> THEN <<>>
    ELSE LET w == Head(ws)
             left == cur_x + WordPreAdvance(w, space_width, st)
             center == left + w.width \div 2
             right == left + w.width
             w1 == Ext(w, [left |-> left, center |-> center, right |-> right,
                           x |-> UnitX(st, left, center, right),
                           top |-> l.top, middle |-> l.middle,
                           bottom |-> l.bottom, y |-> l.y])
         IN  <<w1>> \o WordsLTR(Tail(ws), left + WordPostAdvance(w, space_width, st),
                                l, st, space_width)

\* left of a word in the vertical loop of add_words
WordVerticalLeft(w, l, st, play_res_x, max_width) ==
    LET x_fix == (max_width - w.width) \div 2
    IN  IF st.alignment = 4 THEN l.left + x_fix
        ELSE IF st.alignment = 5 THEN play_res_x \div 2 - w.width \div 2
        ELSE l.right - w.width - x_fix

RECURSIVE UnitsVertical(_, _, _)
\* the top-to-bottom loops: lefts[k] is the left computed for unit k
UnitsVertical(us, lefts, cur_y) ==
    IF us = <<>> THEN <<>>
    ELSE LET u == Head(us)
             left == Head(lefts)
             center == left + u.width \div 2
             right == left + u.width
             top == cur_y
             middle == top + u.height \div 2
             u1 == Ext(u, [left |-> left, center |-> center, right |-> right,
                           top |-> top, middle |-> middle, bottom |-> top + u.height,
                           y |-> middle])
         IN  <<u1>> \o UnitsVertical(Tail(us), Tail(lefts), cur_y + u.height)

\* x of a unit in the vertical loops
VerticalX(st, u) ==
    IF st.alignment = 4 THEN u.left ELSE IF st.alignment = 5 THEN u.center ELSE u.right

WithVerticalX(us, st) == [k \in 1..Len(us) |-> Ext(us[k], [x |-> VerticalX(st, us[k])])]

\* add_words lays the words out left to right
WordsAreLTR(st) == an_is_top(st) \/ an_is_bottom(st)

WordsVertical(ws, l, st, m) ==
    LET max_width == MaxSeq(Field(ws, "width"))
        sum_height == SumSeq(Field(ws, "height"))
        lefts == [k \in 1..Len(ws) |->
                    WordVerticalLeft(ws[k], l, st, m.play_res_x, max_width)]
    IN  WithVerticalX(UnitsVertical(ws, lefts, m.play_res_y \div 2 - sum_height \div 2), st)

AddWords ==
    /\ pc = "data"
    /\ LET ws == NewWords(line)
       IN  IF WordsAreLTR(style)
           THEN /\ words' = WordsLTR(ws, line.left, line, style, TextExtents(<<" ">>).width)
                /\ pc' = "words"
           ELSE IF ws = <<>>
           THEN \* max() of an empty sequence: ValueError
                /\ words' = ws
                /\ pc' = "err_add_words"
           ELSE /\ words' = WordsVertical(ws, line, style, meta)
                /\ pc' = "words"
    /\ UNCHANGED <<inputs, line, syls, chars, ret, stripped>>
    /\ UNCHANGED <<docvars, metavars, toolvars>>

-----------------------------------------------------------------------------
(* Line.add_syls *)

\* tags that mark an inline effect (\-NAME); none is in Alphabet
InlineFxTags == {"\\-fx"}

RECURSIVE SylMatches(_, _)
\* syldata.finditer(t) from index from: the groups of each match of
\* {(?P<pretags>.*?)\\[kK][of]?(?P<kdur>\d+)(?P<posttags>[^}]*)}(?P<syltext>[^{]*)
SylMatches(t, from) ==
    LET o == FirstIn(t, from, {"{"})
        m == IF o = 0 THEN 0 ELSE FirstIn(t, o + 1, KMarkers)
        c == IF m = 0 THEN 0 ELSE FirstIn(t, m + 1, {"}"})
        nx == IF c = 0 THEN 0 ELSE FirstIn(t, c + 1, {"{"})
        end == IF nx = 0 THEN Len(t) ELSE nx - 1
    IN  IF c = 0 THEN <<>>
        ELSE <<[pretags |-> SubSeq(t, o + 1, m - 1), kdur |-> KDur(t[m]),
                posttags |-> SubSeq(t, m + 1, c - 1),
                syltext |-> SubSeq(t, c + 1, end)]>>
             \o SylMatches(t, end + 1)

\* the tags of a match: pretags, then posttags, each without "}{", the empty ones dropped
PTags(k) ==
    SelectSeq(<<RemovePair(k.pretags, "}", "{"), RemovePair(k.posttags, "}", "{")>>,
              LAMBDA g : g # <<>>)

\* an OrderedSet built from a sequence: first occurrences, in order
RECURSIVE Ordered(_)
Ordered(q) ==
    IF q = <<>> THEN <<>>
    ELSE LET r == Ordered(SubSeq(q, 1, Len(q) - 1))
         IN  IF \E j \in 1..Len(r) : r[j] = q[Len(q)] THEN r ELSE Append(r, q[Len(q)])

\* mutants: every syllable starts at zero; the running time is not carried over
SylStart_Zero(last_time) == 0
SylEnd_NoCarry(last_time, kdur) == TimeAdd(0, CsToSec(kdur))

\* start of a syllable and the running time after it
SylStart(last_time) == last_time
SylEnd(last_time, kdur) == TimeAdd(last_time, CsToSec(kdur))

\* the word index after syllable k0, k1 being the next match (<<>> when k0 is the last)
NextWordI(word_i, k0, k1) ==
    IF \/ (k0.syltext # <<>> /\ IsSpace(k0.syltext[Len(k0.syltext)]))
       \/ (k1 # <<>> /\ k1[1].syltext # <<>> /\ IsSpace(k1[1].syltext[1]))
    THEN word_i + 1 ELSE word_i

RECURSIVE NewSyls(_, _, _, _)
\* the first loop of add_syls over the matches ks, from syllable index si
NewSyls(ks, si, last_time, word_i) ==
    IF ks = <<>> THEN <<>>
    ELSE LET k0 == Head(ks)
             text == k0.syltext
             blank == text = <<>> \/ IsBlank(text)
             fx == SelectSeq(PTags(k0), LAMBDA g : g[1] \in InlineFxTags)
             tg == SelectSeq(PTags(k0), LAMBDA g : g[1] \notin InlineFxTags)
             syl0 == [i |-> si, word_i |-> word_i, text |-> text,
                      prespace |-> IF blank THEN 0 ELSE LeadSpaces(text),
                      postspace |-> IF blank THEN 0 ELSE TrailSpaces(text),
                      width |-> TextExtents(text).width,
                      height |-> TextExtents(text).height,
                      start_time |-> SylStart(last_time),
                      end_time |-> SylEnd(last_time, k0.kdur),
                      duration |-> CsToSec(k0.kdur)]
             syl1 == IF fx = <<>> THEN syl0 ELSE Ext(syl0, [inline_fx |-> Ordered(fx)])
             syl == IF tg = <<>> THEN syl1 ELSE Ext(syl1, [tags |-> Ordered(tg)])
         IN  <<syl>> \o NewSyls(Tail(ks), si + 1, syl.end_time,
                                NextWordI(word_i, k0, SubSeq(ks, 2, 2)))

ParseSyls(raw) == NewSyls(SylMatches(KaraokeText(raw), 1), 0, 0, 0)

\* the cursor of the syllable pass before and after a syllable
SylPreAdvance(u, space_width, st) == u.prespace * (space_width + st.spacing)
SylPostAdvance(u, space_width, st) ==
    u.width + u.postspace * (space_width + st.spacing) + st.spacing

RECURSIVE SylsLTR(_, _, _, _, _)
\* the left-to-right loop of add_syls
SylsLTR(us, cur_x, l, st, space_width) ==
    IF us = <<>> THEN <<>>
    ELSE LET u == Head(us)
             left == cur_x + SylPreAdvance(u, space_width, st)
             center == left + u.width \div 2
             right == left + u.width
             u1 == Ext(u, [left |-> left, center |-> center, right |-> right,
                           x |-> UnitX(st, left, center, right),
                           top |-> l.top, middle |-> l.middle,
                           bottom |-> l.bottom, y |-> l.y])
         IN  <<u1>> \o SylsLTR(Tail(us), left + SylPostAdvance(u, space_width, st),
                               l, st, space_width)

\* left of a syllable in the vertical loop of add_syls
SylVerticalLeft(u, l, st, max_width) ==
    LET x_fix == (max_width - u.width) \div 2
    IN  IF st.alignment = 4 THEN l.left + x_fix
        ELSE IF st.alignment = 5 THEN l.center - u.width \div 2
        ELSE l.right - u.width - x_fix

\* add_syls and add_chars lay their units out left to right
UnitsAreLTR(st, vk) == an_is_top(st) \/ an_is_bottom(st) \/ ~vk

SylsVertical(us, l, st, m) ==
    LET max_width == MaxSeq(Field(us, "width"))
        sum_height == SumSeq(Field(us, "height"))
        lefts == [k \in 1..Len(us) |-> SylVerticalLeft(us[k], l, st, max_width)]
    IN  WithVerticalX(UnitsVertical(us, lefts, m.play_res_y \div 2 - sum_height \div 2), st)

AddSyls ==
    /\ pc = "words"
    /\ LET us == ParseSyls(line.raw_text)
       IN  IF UnitsAreLTR(style, vertical_kanji)
           THEN /\ syls' = SylsLTR(us, line.left, line, style, TextExtents(<<" ">>).width)
                /\ pc' = "syls"
           ELSE IF us = <<>>
           THEN \* max() of an empty sequence: ValueError
                /\ syls' = us
                /\ pc' = "err_add_syls"
           ELSE /\ syls' = SylsVertical(us, line, style, meta)
                /\ pc' = "syls"
    /\ UNCHANGED <<inputs, line, words, chars, ret, stripped>>
    /\ UNCHANGED <<docvars, metavars, toolvars>>

-----------------------------------------------------------------------------
(* Line.add_chars *)

Spaces(n) == [k \in 1..n |-> " "]

\* the Char objects of one word or syllable el, the e-th (from 0) of its list
CharsOf(el, e, from_syls) ==
    LET el_text == Spaces(el.prespace) \o el.text \o Spaces(el.postspace)
    IN  [c \in 1..Len(el_text) |->
            LET ci == c - 1
                ext == TextExtents(<<el_text[c]>>)
                ch == [i |-> e + ci,
                       start_time |-> el.start_time, end_time |-> el.end_time,
                       duration |-> el.duration,
                       text |-> <<el_text[c]>>,
                       prespace |-> IF c > 1 /\ IsSpace(el_text[c - 1]) THEN 1 ELSE 0,
                       postspace |-> IF c < Len(el_text) /\ IsSpace(el_text[c + 1])
                                     THEN 1 ELSE 0,
                       width |-> ext.width, height |-> ext.height]
            IN  IF from_syls
                THEN Ext(ch, [word_i |-> el.word_i, syl_i |-> el.i, syl_char_i |-> ci])
                ELSE Ext(ch, [word_i |-> el.i])]

\* the first loop of add_chars
NewChars(els, from_syls) ==
    Concat([e \in 1..Len(els) |-> CharsOf(els[e], e - 1, from_syls)])

\* x of a char in the left-to-right loop
CharX(st, left, center, right) == IF an_is_center(st) THEN center ELSE right

\* the cursor of the char pass after a char
CharPostAdvance(ch, st) == ch.width + st.spacing

RECURSIVE CharsLTR(_, _, _, _)
\* the left-to-right loop of add_chars
CharsLTR(cs, cur_x, l, st) ==
    IF cs = <<>> THEN <<>>
    ELSE LET ch == Head(cs)
             left == cur_x
             center == left + ch.width \div 2
             right == left + ch.width
             c1 == Ext(ch, [left |-> left, center |-> center, right |-> right,
                            x |-> CharX(st, left, center, right),
                            top |-> l.top, middle |-> l.middle,
                            bottom |-> l.bottom, y |-> l.y])
         IN  <<c1>> \o CharsLTR(Tail(cs), left + CharPostAdvance(ch, st), l, st)

\* mutant: the horizontal bounds of the line are left as add_data computed them
FixLine_KeepHorizontal(l, st, m, max_width, sum_height) ==
    LET top == m.play_res_y \div 2 - sum_height \div 2
    IN  Ext(l, [top |-> top, middle |-> m.play_res_y \div 2,
                bottom |-> top + sum_height,
                width |-> max_width, height |-> sum_height])

\* "Fixing line positions": the bounds of the line recomputed from its chars
FixLine(l, st, m, max_width, sum_height) ==
    LET top == m.play_res_y \div 2 - sum_height \div 2
        l1 == Ext(l, [top |-> top, middle |-> m.play_res_y \div 2,
                      bottom |-> top + sum_height,
                      width |-> max_width, height |-> sum_height])
    IN  IF st.alignment = 4
        THEN Ext(l1, [center |-> l.left + max_width \div 2, right |-> l.left + max_width])
        ELSE IF st.alignment = 5
        THEN Ext(l1, [left |-> l.center - max_width \div 2,
                      right |-> l.center - max_width \div 2 + max_width])
        ELSE Ext(l1, [left |-> l.right - max_width,
                      center |-> l.right - max_width + max_width \div 2])

\* left of a char in the vertical loop of add_chars, l being the fixed line
CharVerticalLeft(ch, l, st, play_res_x, max_width) ==
    LET x_fix == (max_width - ch.width) \div 2
    IN  IF st.alignment = 4 THEN l.left + x_fix
        ELSE IF st.alignment = 5 THEN play_res_x \div 2 - ch.width \div 2
        ELSE l.right - ch.width - x_fix

CharsVertical(cs, l, st, m) ==
    LET max_width == MaxSeq(Field(cs, "width"))
        sum_height == SumSeq(Field(cs, "height"))
        lefts == [k \in 1..Len(cs) |->
                    CharVerticalLeft(cs[k], l, st, m.play_res_x, max_width)]
    IN  WithVerticalX(UnitsVertical(cs, lefts, m.play_res_y \div 2 - sum_height \div 2), st)

AddChars ==
    /\ pc = "syls"
    /\ LET from_syls == syls # <<>>
           cs == NewChars(IF from_syls THEN syls ELSE words, from_syls)
       IN  IF syls = <<>> /\ words = <<>>
           THEN chars' = <<>> /\ line' = line /\ pc' = "chars"
           ELSE IF UnitsAreLTR(style, vertical_kanji)
           THEN /\ chars' = CharsLTR(cs, line.left, line, style)
                /\ line' = line
                /\ pc' = "chars"
           ELSE IF cs = <<>>
           THEN \* max() of an empty sequence: ValueError
                /\ chars' = cs
                /\ line' = line
                /\ pc' = "err_add_chars"
           ELSE LET max_width == MaxSeq(Field(cs, "width"))
                    sum_height == SumSeq(Field(cs, "height"))
                    l1 == FixLine(line, style, meta, max_width, sum_height)
                IN  /\ line' = l1
                    /\ chars' = CharsVertical(cs, l1, style, meta)
                    /\ pc' = "chars"
    /\ UNCHANGED <<inputs, words, syls, ret, stripped>>
    /\ UNCHANGED <<docvars, metavars, toolvars>>

-----------------------------------------------------------------------------
(* PList.strip_empty *)

\* x.text.strip() != '' and x.duration > 0
Keeps(x) == ~IsBlank(x.text) /\ x.duration > 0

\* list.remove(x): without the first element equal to x
RemoveFirst(data, x) ==
    LET k == CHOOSE j \in 1..Len(data) : data[j] = x /\ \A h \in 1..(j - 1) : data[h] # x
    IN  SubSeq(data, 1, k - 1) \o SubSeq(data, k + 1, Len(data))

RECURSIVE StripLoop(_, _)
\* "for x in data: if not (...): data.remove(x)", the iterator standing at idx
StripLoop(data, idx) ==
    IF idx > Len(data) THEN data
    ELSE IF Keeps(data[idx]) THEN StripLoop(data, idx + 1)
    ELSE StripLoop(RemoveFirst(data, data[idx]), idx + 1)

\* what strip_empty leaves in (or returns for) the list data
StripEmptyList(data) == StripLoop(data, 1)

Targets == {"words", "syls", "chars"}

\* a call that returns None
None == [none |-> TRUE]

ListOf(target) ==
    CASE target = "words" -> words [] target = "syls" -> syls [] target = "chars" -> chars

StripEmpty(target, return_new) ==
    /\ pc = "chars"
    /\ LET data == StripEmptyList(ListOf(target))
       IN  IF return_new
           THEN /\ ret' = [none |-> FALSE, data |-> data]
                /\ UNCHANGED <<words, syls, chars, stripped>>
           ELSE /\ words' = IF target = "words" THEN data ELSE words
                /\ syls' = IF target = "syls" THEN data ELSE syls
                /\ chars' = IF target = "chars" THEN data ELSE chars
                /\ stripped' = stripped \cup {target}
                /\ ret' = None
    /\ UNCHANGED <<inputs, line, pc>>
    /\ UNCHANGED <<docvars, metavars, toolvars>>

-----------------------------------------------------------------------------
(* _MetaData: ScriptInfo and ProjectGarbage *)

(* The text of a section is a sequence of lines, a line a sequence of      *)
(* symbols: a word of a key ("Play", "Res", "X"), a space, the separator   *)
(* ": " (a colon and a space), a digit, a dot, a letter of a value.        *)

\* the words of the keys: <<capitalised, lower case>>
WordForms ==
    {<<"Title", "title">>, <<"Script", "script">>, <<"Type", "type">>,
      <<"Wrap", "wrap">>, <<"Style", "style">>, <<"Scaled", "scaled">>,
      <<"Border", "border">>, <<"And", "and">>, <<"Shadow", "shadow">>, <<"Y", "y">>,
      <<"Cb", "cb">>, <<"Cr", "cr">>, <<"Matrix", "matrix">>, <<"Play", "play">>,
      <<"Res", "res">>, <<"X", "x">>, <<"Original", "original">>,
      <<"Translation", "translation">>, <<"Editing", "editing">>,
      <<"Timing", "timing">>, <<"Synch", "synch">>, <<"Point", "point">>,
      <<"Updated", "updated">>, <<"By", "by">>, <<"Update", "update">>,
      <<"Details", "details">>, <<"Automation", "automation">>,
      <<"Scripts", "scripts">>, <<"Export", "export">>, <<"Encoding", "encoding">>,
      <<"Last", "last">>, <<"Storage", "storage">>, <<"Audio", "audio">>,
      <<"File", "file">>, <<"Video", "video">>, <<"A", "a">>, <<"R", "r">>,
      <<"Mode", "mode">>, <<"Value", "value">>, <<"Zoom", "zoom">>,
      <<"Percent", "percent">>, <<"Position", "position">>, <<"Active", "active">>,
      <<"Line", "line">>, <<"Keyframes", "keyframes">>, <<"Foo", "foo">> }

\* str.lower() and str.title() of a symbol
Lower(w) == IF \E f \in WordForms : f[1] = w THEN (CHOOSE f \in WordForms : f[1] = w)[2] ELSE w
Title(w) == IF \E f \in WordForms : f[2] = w THEN (CHOOSE f \in WordForms : f[2] = w)[1] ELSE w

\* the symbol starts with an upper case letter
IsCapital(w) == \E f \in WordForms : f[1] = w

\* the annotations of the class, in declaration order; key is the name as symbols
ScriptInfoSlots ==
    << [attr |-> "title", key |-> <<"title">>, type |-> "str"],
       [attr |-> "script_type", key |-> <<"script", "_", "type">>, type |-> "str"],
       [attr |-> "wrap_style", key |-> <<"wrap", "_", "style">>, type |-> "int"],
       [attr |-> "_scaled_border_and_shadow", key |-> <<"_", "scaled", "_", "border", "_", "and", "_", "shadow">>, type |-> "AssBool"],
       [attr |-> "y_cb_cr__matrix", key |-> <<"y", "_", "cb", "_", "cr", "_", "_", "matrix">>, type |-> "str"],
       [attr |-> "play_res_x", key |-> <<"play", "_", "res", "_", "x">>, type |-> "int"],
       [attr |-> "play_res_y", key |-> <<"play", "_", "res", "_", "y">>, type |-> "int"],
       [attr |-> "original__script", key |-> <<"original", "_", "_", "script">>, type |-> "str"],
       [attr |-> "original__translation", key |-> <<"original", "_", "_", "translation">>, type |-> "str"],
       [attr |-> "original__editing", key |-> <<"original", "_", "_", "editing">>, type |-> "str"],
       [attr |-> "original__timing", key |-> <<"original", "_", "_", "timing">>, type |-> "str"],
       [attr |-> "synch__point", key |-> <<"synch", "_", "_", "point">>, type |-> "str"],
       [attr |-> "script__updated__by", key |-> <<"script", "_", "_", "updated", "_", "_", "by">>, type |-> "str"],
       [attr |-> "update__details", key |-> <<"update", "_", "_", "details">>, type |-> "str"] >>

ProjectGarbageSlots ==
    << [attr |-> "automation__scripts", key |-> <<"automation", "_", "_", "scripts">>, type |-> "str"],
       [attr |-> "export__encoding", key |-> <<"export", "_", "_", "encoding">>, type |-> "str"],
       [attr |-> "last__style__storage", key |-> <<"last", "_", "_", "style", "_", "_", "storage">>, type |-> "str"],
       [attr |-> "audio__file", key |-> <<"audio", "_", "_", "file">>, type |-> "str"],
       [attr |-> "video__file", key |-> <<"video", "_", "_", "file">>, type |-> "str"],
       [attr |-> "video__a_r__mode", key |-> <<"video", "_", "_", "a", "_", "r", "_", "_", "mode">>, type |-> "int"],
       [attr |-> "video__a_r__value", key |-> <<"video", "_", "_", "a", "_", "r", "_", "_", "value">>, type |-> "float"],
       [attr |-> "video__zoom__percent", key |-> <<"video", "_", "_", "zoom", "_", "_", "percent">>, type |-> "float"],
       [attr |-> "video__position", key |-> <<"video", "_", "_", "position">>, type |-> "int"],
       [attr |-> "active__line", key |-> <<"active", "_", "_", "line">>, type |-> "int"],
       [attr |-> "keyframes__file", key |-> <<"keyframes", "_", "_", "file">>, type |-> "str"] >>

Classes == {"ScriptInfo", "ProjectGarbage"}

Annotations(c) == IF c = "ScriptInfo" THEN ScriptInfoSlots ELSE ProjectGarbageSlots

\* the field is declared with a leading underscore and set through its property
IsProperty(f) == f.key[1] = "_"

\* the name a slot is assigned and iterated under: the property for "_name"
Exposed(f) == IF IsProperty(f) THEN Tail(f.key) ELSE f.key

\* index of the last ": " of the line, 0 when there is none: (?P<name>.*) is greedy
LastSep(ln) ==
    IF \E k \in 1..Len(ln) : ln[k] = ": "
    THEN CHOOSE k \in 1..Len(ln) : ln[k] = ": " /\ \A j \in (k + 1)..Len(ln) : ln[j] # ": "
    ELSE 0

\* re.finditer(r'^(?P<name>.*): (?P<value>.*)$', text, re.MULTILINE): name and value
Matches(text) ==
    LET ms == SelectSeq(text, LAMBDA ln : LastSep(ln) # 0)
    IN  [k \in 1..Len(ms) |->
            [name |-> SubSeq(ms[k], 1, LastSep(ms[k]) - 1),
             value |-> SubSeq(ms[k], LastSep(ms[k]) + 1, Len(ms[k]))]]

RECURSIVE SnakeFrom(_, _)
\* pattern.sub('_', k.replace(' ', '_')).lower(), from symbol k of the name on
SnakeFrom(name, k) ==
    IF k > Len(name) THEN <<>>
    ELSE (IF k > 1 /\ IsCapital(name[k]) THEN <<"_">> ELSE <<>>)
         \o (IF name[k] = " " THEN <<"_">>
             ELSE IF name[k] = ": " THEN <<":", "_">>
             ELSE <<Lower(name[k])>>)
         \o SnakeFrom(name, k + 1)

Snake(name) == SnakeFrom(name, 1)

Digits == <<"0", "1", "2", "3", "4", "5", "6", "7", "8", "9">>
IsDigit(c) == \E d \in 1..Len(Digits) : Digits[d] = c
DigitOf(c) == (CHOOSE d \in 1..Len(Digits) : Digits[d] = c) - 1

RECURSIVE IntOf(_)
\* int(v) of a string of digits
IntOf(v) == IF v = <<>> THEN 0 ELSE IntOf(SubSeq(v, 1, Len(v) - 1)) * 10 + DigitOf(v[Len(v)])

RECURSIVE StrOfInt(_)
\* str(n) of a non-negative int
StrOfInt(n) == IF n < 10 THEN <<Digits[n + 1]>> ELSE StrOfInt(n \div 10) \o <<Digits[(n % 10) + 1]>>

RECURSIVE DropTrailingZeros(_)
DropTrailingZeros(v) ==
    IF v # <<>> /\ v[Len(v)] = "0" THEN DropTrailingZeros(SubSeq(v, 1, Len(v) - 1)) ELSE v

AllDigits(v) == \A k \in 1..Len(v) : IsDigit(v[k])

\* int(v): a ValueError unless v is a string of digits
CoerceInt(v) ==
    IF v # <<>> /\ AllDigits(v) THEN [ok |-> TRUE, val |-> [type |-> "int", n |-> IntOf(v)]]
    ELSE [ok |-> FALSE]

\* float(v): digits with at most one dot; the value as integer part and decimals
CoerceFloat(v) ==
    LET dot == FirstIn(v, 1, {"."})
        ip == IF dot = 0 THEN v ELSE SubSeq(v, 1, dot - 1)
        fr == IF dot = 0 THEN <<>> ELSE SubSeq(v, dot + 1, Len(v))
    IN  IF AllDigits(ip) /\ AllDigits(fr) /\ ip \o fr # <<>>
        THEN [ok |-> TRUE,
              val |-> [type |-> "float", ip |-> IntOf(ip), frac |-> DropTrailingZeros(fr)]]
        ELSE [ok |-> FALSE]

\* AssBool(v): "yes" or "no"
CoerceAssBool(v) ==
    IF v \in {<<"yes">>, <<"no">>} THEN [ok |-> TRUE, val |-> [type |-> "AssBool", text |-> v]]
    ELSE [ok |-> FALSE]

\* eval(cls.__annotations__[k])(v)
Coerce(type, v) ==
    CASE type = "str" -> [ok |-> TRUE, val |-> [type |-> "str", text |-> v]]
      [] type = "int" -> CoerceInt(v)
      [] type = "float" -> CoerceFloat(v)
      [] type = "AssBool" -> CoerceAssBool(v)

\* str(v), repr(v) for a CustomBool
StrOf(val) ==
    CASE val.type = "str" -> val.text
      [] val.type = "int" -> StrOfInt(val.n)
      [] val.type = "float" ->
            StrOfInt(val.ip) \o <<".">> \o (IF val.frac = <<>> THEN <<"0">> ELSE val.frac)
      [] val.type = "AssBool" -> val.text

\* the slot of class c a transformed name k is assigned to, 0 when it is none
SlotOf(c, k) ==
    LET an == Annotations(c)
    IN  IF \E j \in 1..Len(an) : Exposed(an[j]) = k
        THEN CHOOSE j \in 1..Len(an) : Exposed(an[j]) = k
        ELSE 0

\* a record without assigned field
EmptyRecord == [a \in {} |-> 0]

RECURSIVE Decode(_, _, _)
\* the loop of from_text over the matches ms, rec being the record so far
Decode(c, ms, rec) ==
    IF ms = <<>> THEN [ok |-> TRUE, rec |-> rec]
    ELSE LET j == SlotOf(c, Snake(Head(ms).name))
         IN  IF j = 0 THEN Decode(c, Tail(ms), rec)
             ELSE LET f == Annotations(c)[j]
                      got == Coerce(f.type, Head(ms).value)
                  IN  IF ~got.ok THEN [ok |-> FALSE]
                      ELSE Decode(c, Tail(ms), Ext(rec, [a \in {f.attr} |-> got.val]))

\* cls.from_text(text)
MetaDataFromText(c, text) == Decode(c, Matches(text), EmptyRecord)

RECURSIVE SplitUnderscore(_)
\* k.split('_'): the words of a key, the empty ones included
SplitUnderscore(k) ==
    LET u == FirstIn(k, 1, {"_"})
    IN  IF u = 0 THEN <<k>>
        ELSE <<SubSeq(k, 1, u - 1)>> \o SplitUnderscore(SubSeq(k, u + 1, Len(k)))

\* the key of a field as as_text writes it
KeyText(k) ==
    LET ws == SplitUnderscore(k)
    IN  Concat([j \in 1..Len(ws) |->
                  IF ws[j] = <<>> THEN <<" ">> ELSE [h \in 1..Len(ws[j]) |-> Title(ws[j][h])]])

\* the fields "for k, v in self" yields: the assigned ones, in declaration order
Assigned(c, rec) == SelectSeq(Annotations(c), LAMBDA f : f.attr \in DOMAIN rec)

\* self.as_text(): one line per assigned field
MetaDataAsText(c, rec) ==
    LET fs == Assigned(c, rec)
    IN  [j \in 1..Len(fs) |-> KeyText(Exposed(fs[j])) \o <<": ">> \o StrOf(rec[fs[j].attr])]

\* the lines the model decodes
MetaLines ==
    { <<"Play", "Res", "X", ": ", "1", "2">>,
      <<"Play", "Res", "Y", ": ", "a">>,
      <<"Play", "Res", "Y", ": ", "1", ": ", "2">>,
      <<"Wrap", "Style", ": ", "0">>,
      <<"Title", ": ", "a", ": ", "b">>,
      <<"Y", "Cb", "Cr", " ", "Matrix", ": ", "a">>,
      <<"Foo", ": ", "a">>,
      <<"Video", " ", "Zoom", " ", "Percent", ": ", "1", ".", "5", "0">>,
      <<"Video", " ", "A", "R", " ", "Mode", ": ", "0", "4">>,
      <<";", " ", "a">> }

MetaFromText ==
    /\ mpc = "new"
    /\ LET got == MetaDataFromText(cls, mtext)
       IN  IF got.ok
           THEN record' = got.rec /\ mpc' = "decoded"
           ELSE \* ValueError out of the coercion
                record' = record /\ mpc' = "err_from_text"
    /\ UNCHANGED <<cls, mtext, encoded>>
    /\ UNCHANGED <<argvars, linevars, docvars, toolvars>>

MetaAsText ==
    /\ mpc = "decoded"
    /\ encoded' = MetaDataAsText(cls, record)
    /\ mpc' = "encoded"
    /\ UNCHANGED <<cls, mtext, record>>
    /\ UNCHANGED <<argvars, linevars, docvars, toolvars>>

-----------------------------------------------------------------------------
(* Ass: the document *)

(* The input file is a sequence of sections, each a header and the lines   *)
(* under it.  The first line under [V4+ Styles] and [Events] is the        *)
(* "Format:" line.  A Style line is the record of its fields, an event     *)
(* line the record of its kind ("Dialogue" or "Comment") and fields.       *)
(* Written text is a sequence of lines, a line a sequence of tokens: a     *)
(* keyword ("Dialogue:", "Comment:", "Format:") or the remainder of the    *)
(* n-th line of a list.                                                    *)

Recognized == {"[Script Info]", "[Aegisub Project Garbage]", "[V4+ Styles]", "[Events]"}

Kw(k) == [kw |-> k, of |-> "", n |-> 0]
Rest(of, n) == [kw |-> "", of |-> of, n |-> n]

FormatLine == <<Kw("Format:")>>

\* the text of the n-th line under [Events]
EventText(body, n) ==
    <<Kw(IF body[n].kind = "Comment" THEN "Comment:" ELSE "Dialogue:"), Rest("orig", n)>>

\* self._sections: header -> text, the last of two sections of one name winning
SectionsOf(file) ==
    [h \in {file[k].name : k \in 1..Len(file)} |->
        file[CHOOSE k \in 1..Len(file) :
                /\ file[k].name = h
                /\ \A j \in (k + 1)..Len(file) : file[j].name # h].body]

\* sec.text.strip().splitlines()[1:]
AfterFormat(body) == SubSeq(body, 2, Len(body))

\* Style.from_text: the Alignment field goes through int() and is kept as it
\* comes, whatever its value
StyleFromText(txt) == [txt EXCEPT !.alignment = IntOf(@)]

\* Style.as_text: str(self.alignment)
StyleAsText(st) == [st EXCEPT !.alignment = StrOfInt(@)]

\* Style.get_default()
BuiltinDefault == StyleOf(2, 0, <<10, 10, 10>>)

\* _styles_to_map(styles).get(name): identity of the style of that name, 0 for a KeyError
StyleByName(hp, ids, name) ==
    IF \E k \in 1..Len(ids) : hp[ids[k]].name = name
    THEN ids[CHOOSE k \in 1..Len(ids) :
                /\ hp[ids[k]].name = name
                /\ \A j \in (k + 1)..Len(ids) : hp[ids[j]].name # name]
    ELSE 0

\* {s.name: s for s in styles}: the last style of a name wins
NameMap(hp, ids) ==
    [name \in {hp[ids[k]].name : k \in 1..Len(ids)} |-> StyleByName(hp, ids, name)]

\* the entries of the cache for the tuple of these Style objects: the objects hash
\* by identity, and a tuple equals a tuple of the same objects
Hits(entries, ids) == {e \in entries : e.key = ids}

\* _styles_to_map(styles): the map returned and the cache after the call
StylesToMap(entries, hp, ids) ==
    IF Hits(entries, ids) # {}
    THEN [map |-> (CHOOSE e \in Hits(entries, ids) : TRUE).map, cache |-> entries]
    ELSE [map |-> NameMap(hp, ids),
          cache |-> entries \cup {[key |-> ids, map |-> NameMap(hp, ids)]}]

\* mutant: the shared "Default" style itself is renamed and given to the line
ResolveStyle_Shared(hp, ids, name) ==
    LET found == StyleByName(hp, ids, name)
        dflt == StyleByName(hp, ids, "Default")
    IN  IF ids = <<>> THEN [heap |-> hp, style |-> 0, warned |-> FALSE]
        ELSE IF found # 0 THEN [heap |-> hp, style |-> found, warned |-> FALSE]
        ELSE IF dflt # 0
        THEN [heap |-> [hp EXCEPT ![dflt] = Ext(hp[dflt], [name |-> name])],
              style |-> dflt, warned |-> TRUE]
        ELSE [heap |-> Append(hp, Ext(BuiltinDefault, [name |-> name])),
              style |-> Len(hp) + 1, warned |-> TRUE]

\* the style part of Line.from_text: the style of the line (0: none is assigned),
\* the heap after it, whether a warning was logged
ResolveStyle(hp, ids, name) ==
    LET found == StyleByName(hp, ids, name)
        dflt == StyleByName(hp, ids, "Default")
    IN  IF ids = <<>> THEN [heap |-> hp, style |-> 0, warned |-> FALSE]
        ELSE IF found # 0 THEN [heap |-> hp, style |-> found, warned |-> FALSE]
        ELSE [heap |-> Append(hp, Ext(IF dflt # 0 THEN hp[dflt] ELSE BuiltinDefault,
                                      [name |-> name])),
              style |-> Len(hp) + 1, warned |-> TRUE]

RECURSIVE BuildLines(_, _, _, _, _, _)
\* the loop over the lines of [Events]: Line.from_text for each, from index i on
BuildLines(evs, i, hp, ids, fps, fix) ==
    IF evs = <<>> THEN [heap |-> hp, lines |-> <<>>, log |-> {}]
    ELSE LET ev == Head(evs)
             rs == ResolveStyle(hp, ids, ev.style)
             l0 == Ext(FromTextLine(ev, fps, fix), [i |-> i, comment |-> ev.kind = "Comment"])
             l == IF rs.style = 0 THEN l0 ELSE Ext(l0, [style |-> rs.style])
             rest == BuildLines(Tail(evs), i + 1, rs.heap, ids, fps, fix)
         IN  [heap |-> rest.heap, lines |-> <<l>> \o rest.lines,
              log |-> rest.log \cup (IF rs.warned
                                     THEN {[kind |-> "undefined style", what |-> ev.style]}
                                     ELSE {})]

HasStyle(l) == "style" \in DOMAIN l

\* meta.script_info.play_res_x / play_res_y can be read
HasPlayRes(mt) ==
    /\ "script_info" \in DOMAIN mt
    /\ {"play_res_x", "play_res_y"} \subseteq DOMAIN mt.script_info

\* the Meta as the layout reads it
LayoutMeta(mt) ==
    [play_res_x |-> mt.script_info["play_res_x"].n,
     play_res_y |-> mt.script_info["play_res_y"].n, fps |-> mt.fps]

\* add_data, add_words, add_syls, add_chars on one line: the error that ends them
\* ("" for none) and the line after them
ExtendLine(l, st, mt, vk) ==
    IF ~HasPlayRes(mt)
    THEN \* add_data and add_words return on the AttributeError they catch; add_syls
         \* then reads self.left, which add_data never assigned
         LET us == ParseSyls(l.raw_text)
         IN  [err |-> IF ~UnitsAreLTR(st, vk) /\ us = <<>> THEN "ValueError"
                      ELSE "AttributeError",
              line |-> l]
    ELSE LET m == LayoutMeta(mt)
             l1 == AddDataLine(l, st, m)
             ws == NewWords(l1)
             us == ParseSyls(l1.raw_text)
             cs == NewChars(IF us # <<>> THEN us ELSE ws, us # <<>>)
         IN  IF ~WordsAreLTR(st) /\ ws = <<>> THEN [err |-> "ValueError", line |-> l1]
             ELSE IF ~UnitsAreLTR(st, vk) /\ us = <<>> THEN [err |-> "ValueError", line |-> l1]
             ELSE IF UnitsAreLTR(st, vk) \/ (us = <<>> /\ ws = <<>>) THEN [err |-> "", line |-> l1]
             ELSE IF cs = <<>> THEN [err |-> "ValueError", line |-> l1]
             ELSE [err |-> "",
                   line |-> FixLine(l1, st, m, MaxSeq(Field(cs, "width")),
                                    SumSeq(Field(cs, "height")))]

\* the loop "for line in self._lines" of the extended part
ExtendLines(ls, hp, mt, vk) ==
    [k \in 1..Len(ls) |->
        IF HasStyle(ls[k]) THEN ExtendLine(ls[k], hp[ls[k].style], mt, vk)
        ELSE [err |-> "", line |-> ls[k]]]

\* mutant: the duration of one frame
DefaultLead_OneFrame(fps) == 1000 \div fps

\* default_lead = 1 / float(fps) * round(fps), in milliseconds; fps is whole here
DefaultLead(fps) == (1000 * fps) \div fps

\* mutant: the line before, whatever its style
PrevOfStyle_AnyStyle(ls, hp, k) ==
    LET c == {j \in 1..(k - 1) : HasStyle(ls[j])}
    IN  IF c = {} THEN 0 ELSE CHOOSE j \in c : \A h \in c : h <= j

\* lines_by_styles: the line of the same style name before / after line k, 0 for none
PrevOfStyle(ls, hp, k) ==
    LET c == {j \in 1..(k - 1) : HasStyle(ls[j]) /\ hp[ls[j].style].name = hp[ls[k].style].name}
    IN  IF c = {} THEN 0 ELSE CHOOSE j \in c : \A h \in c : h <= j

NextOfStyle(ls, hp, k) ==
    LET c == {j \in (k + 1)..Len(ls) :
                HasStyle(ls[j]) /\ hp[ls[j].style].name = hp[ls[k].style].name}
    IN  IF c = {} THEN 0 ELSE CHOOSE j \in c : \A h \in c : h >= j

LeadIn(ls, hp, k, fps) ==
    LET p == PrevOfStyle(ls, hp, k)
    IN  IF p = 0 THEN DefaultLead(fps) ELSE TimeSub(ls[k].start_time, ls[p].end_time)

LeadOut(ls, hp, k, fps) ==
    LET n == NextOfStyle(ls, hp, k)
    IN  IF n = 0 THEN DefaultLead(fps) ELSE TimeSub(ls[n].start_time, ls[k].end_time)

\* "Add durations between dialogs"
WithLeads(ls, hp, fps) ==
    [k \in 1..Len(ls) |->
        IF HasStyle(ls[k])
        THEN Ext(ls[k], [leadin |-> LeadIn(ls, hp, k, fps), leadout |-> LeadOut(ls, hp, k, fps)])
        ELSE ls[k]]

\* the warnings for the sections among names the file does not have
MissingAmong(secs, names) ==
    {[kind |-> "no section", what |-> h] : h \in names \ DOMAIN secs}

\* Ass.__init__(input_, output, fps, extended, vertical_kanji, fix_timestamps)
AssInit ==
    /\ apc = "new"
    /\ LET secs == SectionsOf(input_)
           fps == MetaOf.fps
           si == IF "[Script Info]" \in DOMAIN secs
                 THEN MetaDataFromText("ScriptInfo", secs["[Script Info]"])
                 ELSE [ok |-> TRUE]
           pg == IF "[Aegisub Project Garbage]" \in DOMAIN secs
                 THEN MetaDataFromText("ProjectGarbage", secs["[Aegisub Project Garbage]"])
                 ELSE [ok |-> TRUE]
           mt == Ext(Ext([fps |-> fps],
                         IF "rec" \in DOMAIN si THEN [script_info |-> si.rec] ELSE EmptyRecord),
                     IF "rec" \in DOMAIN pg THEN [project_garbage |-> pg.rec] ELSE EmptyRecord)
           txts == IF "[V4+ Styles]" \in DOMAIN secs THEN AfterFormat(secs["[V4+ Styles]"]) ELSE <<>>
           hp == [k \in 1..Len(txts) |-> StyleFromText(txts[k])]
           ids == [k \in 1..Len(hp) |-> k]
           evs == IF "[Events]" \in DOMAIN secs THEN AfterFormat(secs["[Events]"]) ELSE <<>>
           bl == BuildLines(evs, 0, hp, ids, fps, fix_timestamps)
           ex == ExtendLines(bl.lines, bl.heap, mt, vertical_kanji)
           failed == \/ ~si.ok \/ ~pg.ok
                     \/ extended /\ \E k \in 1..Len(ex) : ex[k].err # ""
       IN  /\ sections' = secs
           /\ log' = IF ~si.ok THEN {}
                     ELSE IF ~pg.ok THEN MissingAmong(secs, {"[Script Info]"})
                     ELSE MissingAmong(secs, Recognized) \cup bl.log
           /\ IF failed
              THEN /\ apc' = "err_init"
                   /\ UNCHANGED <<ameta, heap, styles, lines, cache>>
              ELSE /\ apc' = "ready"
                   /\ cache' = IF ids # <<>> /\ evs # <<>>
                               THEN StylesToMap(cache, hp, ids).cache
                               ELSE cache
                   /\ ameta' = mt
                   /\ heap' = bl.heap
                   /\ styles' = ids
                   /\ lines' = IF extended
                               THEN WithLeads([k \in 1..Len(ex) |-> ex[k].line], bl.heap, fps)
                               ELSE bl.lines
    /\ UNCHANGED <<input_, extended, output_lines, written>>
    /\ UNCHANGED <<argvars, linevars, metavars, resvars, timevars, shapevars,
                   smap, serr, nedits>>

\* Line.as_text of line k of self.lines: one line of text
LineAsText(ls, k) == <<Kw(IF ls[k].comment THEN "Comment:" ELSE "Dialogue:"), Rest("gen", k)>>

\* Ass.add_line(line), line being the k-th of self.lines
AddLine(k) ==
    /\ apc = "ready"
    /\ k \in 1..Len(lines)
    /\ HasStyle(lines[k])
    /\ Len(output_lines) < MaxOut
    /\ output_lines' = Append(output_lines, LineAsText(lines, k))
    /\ UNCHANGED <<apc, input_, extended, sections, ameta, heap, styles, lines, log, written>>
    /\ UNCHANGED <<argvars, linevars, metavars, toolvars>>

\* re.sub(r'^Dialogue:|Comment:', 'Comment:', txt, 0, re.MULTILINE) on one line of text
Recomment(txt) ==
    [k \in 1..Len(txt) |->
        IF (k = 1 /\ txt[k] = Kw("Dialogue:")) \/ txt[k] = Kw("Comment:")
        THEN Kw("Comment:") ELSE txt[k]]

\* ''.join(self._sections['[Events]'].text.strip().splitlines()[1:])
EventsTxt(body) == Concat([n \in 1..(Len(body) - 1) |-> EventText(body, n + 1)])

\* what save writes under [Script Info] / [Aegisub Project Garbage]
MetaSectionText(mt, field, c, comment) ==
    IF field \in DOMAIN mt THEN comment \o MetaDataAsText(c, mt[field]) ELSE <<>>

\* Ass.save(None, comment_original, None, keep_extradata): the sections written
SaveText(comment_original, keep_extradata) ==
    << [name |-> "[Script Info]",
        body |-> MetaSectionText(ameta, "script_info", "ScriptInfo",
                                 << <<";", " ", "Script generated by Pyonfx">> >>)],
       [name |-> "[Aegisub Project Garbage]",
        body |-> MetaSectionText(ameta, "project_garbage", "ProjectGarbage", <<>>)],
       [name |-> "[V4+ Styles]",
        body |-> <<FormatLine>> \o [k \in 1..Len(styles) |-> StyleAsText(heap[styles[k]])]],
       [name |-> "[Events]",
        body |-> <<FormatLine>>
                 \o (IF comment_original /\ "[Events]" \in DOMAIN sections
                     THEN <<Recomment(EventsTxt(sections["[Events]"]))>> ELSE <<>>)
                 \o output_lines] >>
    \o (IF keep_extradata /\ "[Aegisub Extradata]" \in DOMAIN sections
        THEN <<[name |-> "[Aegisub Extradata]", body |-> sections["[Aegisub Extradata]"]]>>
        ELSE <<>>)

Save(comment_original, keep_extradata) ==
    /\ apc = "ready"
    /\ written' = [comment_original |-> comment_original, keep_extradata |-> keep_extradata,
                   text |-> SaveText(comment_original, keep_extradata)]
    /\ apc' = "saved"
    /\ UNCHANGED <<input_, extended, sections, ameta, heap, styles, lines, log, output_lines>>
    /\ UNCHANGED <<argvars, linevars, metavars, toolvars>>

-----------------------------------------------------------------------------
(* Style.resample *)

\* fractions n/d with d > 0, in lowest terms, for the fields Python keeps as floats
RECURSIVE Gcd(_, _)
Gcd(a, b) == IF b = 0 THEN a ELSE Gcd(b, a % b)

Frac(n, d) == LET g == Gcd(n, d) IN [n |-> n \div g, d |-> d \div g]
FracMul(x, n, d) ==
    LET f == Frac(n, d)
        g == Gcd(x.n, f.d)
        h == Gcd(f.n, x.d)
    IN  [n |-> (x.n \div g) * (f.n \div h), d |-> (x.d \div h) * (f.d \div g)]

\* round(v * n / d) as Python 3 rounds: to the nearest integer, a tie to the even one
Round(v, n, d) ==
    LET q == (v \div d) * n + ((v % d) * n) \div d
        r == ((v % d) * n) % d
    IN  IF 2 * r < d THEN q
        ELSE IF 2 * r > d THEN q + 1
        ELSE IF q % 2 = 0 THEN q ELSE q + 1

\* round(x, 5) keeps five decimals: outline and shadow are held in units of 1/100000
Decimals5 == 100000

\* round(v * n / d, 5) for v in those units: the nearest value; when the exact product
\* lies midway between two, the float product decides, so either may come out
Round5(v, n, d) ==
    LET q == (v \div d) * n + ((v % d) * n) \div d
        r == ((v % d) * n) % d
    IN  IF 2 * r < d THEN {q}
        ELSE IF 2 * r > d THEN {q + 1}
        ELSE {q, q + 1}

\* the fields of a Style that resample reads or could write
ResampleStyleOf(fontsize, spacing, outline, shadow, mg) ==
    [name |-> "Default", fontname |-> "Arial", fontsize |-> fontsize,
     scale_x |-> Frac(100, 1), scale_y |-> Frac(100, 1), spacing |-> Frac(spacing, 1),
     angle |-> 0, bold |-> FALSE, outline |-> outline * Decimals5,
     shadow |-> shadow * Decimals5, alignment |-> 2,
     margin_l |-> mg[1], margin_r |-> mg[2], margin_v |-> mg[3], encoding |-> 1]

\* scaled_border_and_shadow as resample settles it from its argument and its source
ScaledBorderAndShadow(args) ==
    IF args.kind \in {"Meta", "ScriptInfo"} THEN args.sbas \/ args.flag ELSE args.sbas

\* mutant: scale_x stretched whenever the aspect ratios differ
Stretches_AnyDelta(s, t) == s[1] * t[2] # t[1] * s[2]

\* abs(old_ar - new_ar) / new_ar > 0.01, for old_ar = sx / sy and new_ar = tx / ty
Stretches(s, t) ==
    LET delta == s[1] * t[2] - t[1] * s[2]
    IN  100 * (IF delta < 0 THEN -delta ELSE delta) > s[2] * t[1]

\* round(v * scale_width), round(v * scale_height)
ScaleHorizontal(v, s, t) == Round(v, t[1], s[1])
ScaleVertical(v, s, t) == Round(v, t[2], s[2])

\* what outline (or shadow) v can become
Thickness(v, s, t, args) ==
    IF ScaledBorderAndShadow(args) THEN Round5(v, t[2], s[2]) ELSE {v}

\* the body of resample for source resolution s and target resolution t, outline and
\* shadow being the values the two round(x, 5) gave
Resampled(st, s, t, outline, shadow) ==
    [st EXCEPT
        !.fontsize = ScaleVertical(st.fontsize, s, t),
        !.scale_x = IF Stretches(s, t)
                    THEN FracMul(st.scale_x, t[1] * s[2], t[2] * s[1])
                    ELSE st.scale_x,
        !.spacing = FracMul(st.spacing, t[1], s[1]),
        !.margin_l = ScaleHorizontal(st.margin_l, s, t),
        !.margin_r = ScaleHorizontal(st.margin_r, s, t),
        !.margin_v = ScaleVertical(st.margin_v, s, t),
        !.outline = outline,
        !.shadow = shadow]

\* style.resample(src_res, target_res, scaled_border_and_shadow)
Resample(s, t) ==
    /\ rargs.kind # "off"
    /\ Len(rcalls) < MaxResamples
    /\ \E outline \in Thickness(rstyle.outline, s, t, rargs),
          shadow \in Thickness(rstyle.shadow, s, t, rargs) :
            rstyle' = Resampled(rstyle, s, t, outline, shadow)
    /\ rcalls' = Append(rcalls, [src |-> s, target |-> t, before |-> rstyle])
    /\ UNCHANGED <<rorig, rargs, rres>>
    /\ UNCHANGED <<argvars, linevars, docvars, metavars, timevars, mapvars, shapevars>>

-----------------------------------------------------------------------------
(* _AssText: shift_time, shift_time0, change_fps *)

\* Time * (input_fps / output_fps), to the millisecond
TimeMul(t, n, d) == (t * n) \div d

\* bound2assframe(time, fps, is_start): the frame boundary of the time's role
BoundToAssFrame(t, fps, is_start) ==
    LET frame == 1000 \div fps
        down == (t \div frame) * frame
    IN  IF is_start \/ down = t THEN down ELSE down + frame

\* the three methods assign start_time and end_time and nothing else
Retimed(l, start, end) == [l EXCEPT !.start_time = start, !.end_time = end]

\* line.shift_time(time)
ShiftTime(time) ==
    /\ pc = "parsed"
    /\ Len(tcalls) < MaxShifts
    /\ line' = Retimed(line, TimeAdd(line.start_time, time), TimeAdd(line.end_time, time))
    /\ tcalls' = Append(tcalls, [method |-> "shift_time", a |-> time, b |-> 0])
    /\ UNCHANGED <<pc, src, style, meta, words, syls, chars, ret, stripped>>
    /\ UNCHANGED <<argvars, docvars, metavars, resvars, mapvars, shapevars>>

\* line.shift_time0(fps)
ShiftTime0(fps) ==
    /\ pc = "parsed"
    /\ Len(tcalls) < MaxShifts
    /\ line' = Retimed(line, BoundToAssFrame(line.start_time, fps, TRUE),
                       BoundToAssFrame(line.end_time, fps, FALSE))
    /\ tcalls' = Append(tcalls, [method |-> "shift_time0", a |-> fps, b |-> 0])
    /\ UNCHANGED <<pc, src, style, meta, words, syls, chars, ret, stripped>>
    /\ UNCHANGED <<argvars, docvars, metavars, resvars, mapvars, shapevars>>

\* line.change_fps(input_fps, output_fps)
ChangeFps(input_fps, output_fps) ==
    /\ pc = "parsed"
    /\ Len(tcalls) < MaxShifts
    /\ line' = Retimed(line, TimeMul(line.start_time, input_fps, output_fps),
                       TimeMul(line.end_time, input_fps, output_fps))
    /\ tcalls' = Append(tcalls, [method |-> "change_fps", a |-> input_fps, b |-> output_fps])
    /\ UNCHANGED <<pc, src, style, meta, words, syls, chars, ret, stripped>>
    /\ UNCHANGED <<argvars, docvars, metavars, resvars, mapvars, shapevars>>

-----------------------------------------------------------------------------
(* Ass.styles_map, Ass.clean_styles and the edits of Ass.styles *)

\* ass.styles[k].name = name
RenameStyle(k, name) ==
    /\ apc = "ready"
    /\ nedits < MaxEdits
    /\ k \in 1..Len(styles)
    /\ heap[styles[k]].name # name
    /\ heap' = [heap EXCEPT ![styles[k]] = Ext(@, [name |-> name])]
    /\ nedits' = nedits + 1
    /\ UNCHANGED <<apc, input_, extended, sections, ameta, styles, lines, log,
                   output_lines, written>>
    /\ UNCHANGED <<cache, smap, serr>>
    /\ UNCHANGED <<argvars, linevars, metavars, resvars, timevars, shapevars>>

\* ass.styles.append(st), st a Style object made for it
AddStyle(st) ==
    /\ apc = "ready"
    /\ nedits < MaxEdits
    /\ heap' = Append(heap, st)
    /\ styles' = Append(styles, Len(heap) + 1)
    /\ nedits' = nedits + 1
    /\ UNCHANGED <<apc, input_, extended, sections, ameta, lines, log, output_lines, written>>
    /\ UNCHANGED <<cache, smap, serr>>
    /\ UNCHANGED <<argvars, linevars, metavars, resvars, timevars, shapevars>>

\* del ass.styles[k]
RemoveStyle(k) ==
    /\ apc = "ready"
    /\ nedits < MaxEdits
    /\ k \in 1..Len(styles)
    /\ styles' = SubSeq(styles, 1, k - 1) \o SubSeq(styles, k + 1, Len(styles))
    /\ nedits' = nedits + 1
    /\ UNCHANGED <<apc, input_, extended, sections, ameta, heap, lines, log,
                   output_lines, written>>
    /\ UNCHANGED <<cache, smap, serr>>
    /\ UNCHANGED <<argvars, linevars, metavars, resvars, timevars, shapevars>>

\* ass.styles_map
StylesMap ==
    /\ apc = "ready"
    /\ LET r == StylesToMap(cache, heap, styles)
       IN  /\ smap' = r.map
           /\ cache' = r.cache
    /\ UNCHANGED <<serr, nedits>>
    /\ UNCHANGED docvars
    /\ UNCHANGED <<argvars, linevars, metavars, resvars, timevars, shapevars>>

\* OrderedSet(names): the names in the order of their first occurrence
RECURSIVE OrderedSetOf(_)
OrderedSetOf(names) ==
    IF names = <<>> THEN <<>>
    ELSE LET front == OrderedSetOf(SubSeq(names, 1, Len(names) - 1))
             last == names[Len(names)]
         IN  IF \E k \in 1..Len(front) : front[k] = last THEN front ELSE Append(front, last)

\* OrderedSet(a) & OrderedSet(b): the names of a that b has, in a's order
OrderedMeet(a, b) ==
    SelectSeq(OrderedSetOf(a), LAMBDA name : \E k \in 1..Len(b) : b[k] = name)

\* ass.clean_styles(): every name is looked up in styles_map; a name the map does
\* not have raises KeyError before self.styles is assigned
CleanStyles ==
    /\ apc = "ready"
    /\ \A k \in 1..Len(lines) : HasStyle(lines[k])
    /\ LET used == OrderedMeet([k \in 1..Len(lines) |-> heap[lines[k].style].name],
                               [k \in 1..Len(styles) |-> heap[styles[k]].name])
           r == StylesToMap(cache, heap, styles)
       IN  IF used = <<>>
           THEN /\ styles' = <<>>
                /\ serr' = ""
                /\ UNCHANGED <<cache, smap>>
           ELSE /\ smap' = r.map
                /\ cache' = r.cache
                /\ IF \A k \in 1..Len(used) : used[k] \in DOMAIN r.map
                   THEN /\ styles' = [k \in 1..Len(used) |-> r.map[used[k]]]
                        /\ serr' = ""
                   ELSE /\ serr' = "KeyError"
                        /\ UNCHANGED styles
    /\ UNCHANGED nedits
    /\ UNCHANGED <<apc, input_, extended, sections, ameta, heap, lines, log,
                   output_lines, written>>
    /\ UNCHANGED <<argvars, linevars, metavars, resvars, timevars, shapevars>>

-----------------------------------------------------------------------------
(* _AssText.to_shape, _AssText.to_clip *)

\* the style after "obj.style.scale_x = fscx" and "obj.style.scale_y = fscy", each
\* for an argument that is not None; scales holds the arguments that are given
Rescaled(st, scales) ==
    Ext(st, Ext(IF "fscx" \in DOMAIN scales THEN [scale_x |-> scales.fscx] ELSE EmptyRecord,
                IF "fscy" \in DOMAIN scales THEN [scale_y |-> scales.fscy] ELSE EmptyRecord))

\* get_font(style).text_to_shape(text): the outline of the text at the style's scale
TextToShape(st, text) == [text |-> text, scale_x |-> st.scale_x, scale_y |-> st.scale_y]

\* the Style objects after obj's style was edited; obj is a deep copy, whose style
\* is a copy of its own and dies with it, or the receiver itself
StyleOfObj(hp, id, copy, scales) ==
    IF copy THEN hp ELSE [hp EXCEPT ![id] = Rescaled(hp[id], scales)]

\* lines[k].to_shape(fscx, fscy, copy)
ToShape(k, scales, copy) ==
    /\ apc = "ready"
    /\ k \in 1..Len(lines)
    /\ HasStyle(lines[k])
    /\ heap' = StyleOfObj(heap, lines[k].style, copy, scales)
    /\ shape' = TextToShape(Rescaled(heap[lines[k].style], scales), lines[k].text)
    /\ UNCHANGED <<apc, input_, extended, sections, ameta, styles, lines, log,
                   output_lines, written>>
    /\ UNCHANGED <<argvars, linevars, metavars, resvars, timevars, mapvars>>

\* lines[k].to_clip(an, fscx, fscy, copy): the missing scales default to the
\* style's, and obj.to_shape(fscx, fscy, False) edits obj's style
ToClip(k, an, scales, copy) ==
    /\ apc = "ready"
    /\ k \in 1..Len(lines)
    /\ HasStyle(lines[k])
    /\ LET st == heap[lines[k].style]
           both == [fscx |-> Rescaled(st, scales).scale_x, fscy |-> Rescaled(st, scales).scale_y]
       IN  /\ heap' = StyleOfObj(heap, lines[k].style, copy, both)
           /\ shape' = Ext(TextToShape(Rescaled(st, both), lines[k].text), [an |-> an])
    /\ UNCHANGED <<apc, input_, extended, sections, ameta, styles, lines, log,
                   output_lines, written>>
    /\ UNCHANGED <<argvars, linevars, metavars, resvars, timevars, mapvars>>

-----------------------------------------------------------------------------
(* Specifications *)

\* no line is being decomposed
LineIdle ==
    /\ pc = "off"
    /\ src = [raw_text |-> <<>>, start |-> <<0, 0, 0, 0>>, end |-> <<0, 0, 0, 0>>,
              margin_l |-> 0, margin_r |-> 0, margin_v |-> 0]
    /\ style = StyleOf(7, 0, <<0, 0, 0>>)
    /\ meta = MetaOf
    /\ line = [i |-> 0]
    /\ words = <<>> /\ syls = <<>> /\ chars = <<>>
    /\ ret = None /\ stripped = {}

\* no document is being built
DocIdle ==
    /\ apc = "off"
    /\ input_ = <<>>
    /\ extended = FALSE
    /\ sections = <<>>
    /\ ameta = [fps |-> MetaOf.fps]
    /\ heap = <<>> /\ styles = <<>> /\ lines = <<>>
    /\ log = {}
    /\ output_lines = <<>>
    /\ written = None

\* no section text is being decoded
MetaIdle ==
    /\ mpc = "off"
    /\ cls = "ScriptInfo"
    /\ mtext = <<>>
    /\ record = EmptyRecord
    /\ encoded = <<>>

\* no Style is being resampled
ResIdle ==
    /\ rstyle = ResampleStyleOf(20, 0, 2, 2, <<10, 10, 10>>)
    /\ rorig = rstyle
    /\ rargs = [kind |-> "off", flag |-> FALSE, sbas |-> FALSE]
    /\ rres = <<<<1, 1>>, <<1, 1>>>>
    /\ rcalls = <<>>

\* no time method has been called
TimeIdle == tcalls = <<>>

\* the cache of a fresh process, no style list edited
MapIdle ==
    /\ cache = {}
    /\ smap = None
    /\ serr = ""
    /\ nedits = 0

\* no shape has been asked for
ShapeIdle == shape = None

ToolIdle == ResIdle /\ TimeIdle /\ MapIdle /\ ShapeIdle

InitWith(texts, ends, fixes, ans, vks, margins, spacings) ==
    /\ pc = "new"
    /\ \E mg \in margins :
         /\ src \in [raw_text : texts, start : StartStamps, end : ends,
                     margin_l : {mg[1][1]}, margin_r : {mg[1][2]}, margin_v : {mg[1][3]}]
         /\ \E an \in ans, sp \in spacings : style = StyleOf(an, sp, mg[2])
    /\ meta = MetaOf
    /\ font = FontOf
    /\ vertical_kanji \in vks
    /\ fix_timestamps \in fixes
    /\ line = [i |-> 0]
    /\ words = <<>> /\ syls = <<>> /\ chars = <<>>
    /\ ret = None /\ stripped = {}
    /\ DocIdle /\ MetaIdle /\ ToolIdle

\* decomposition and timing: many texts, one layout
Init ==
    InitWith(TextsOf(Segments, MaxSegs), EndStamps, {FALSE}, {7}, {FALSE},
             {InheritedMargins}, {0})

\* layout: few texts, every alignment, margin and spacing
InitLayout ==
    InitWith(TextsOf(Units, LayoutSegs), {<<0, 0, 2, 1>>}, {TRUE},
             Alignments, BOOLEAN, MarginCases, Spacings)

Next ==
    \/ FromText
    \/ AddData
    \/ AddWords
    \/ AddSyls
    \/ AddChars
    \/ \E target \in Targets, return_new \in BOOLEAN : StripEmpty(target, return_new)

Spec == Init /\ [][Next]_vars

SpecLayout == InitLayout /\ [][Next]_vars

\* the texts of the sections the documents are made of
ScriptInfoText ==
    << <<"Play", "Res", "X", ": ", "1", "9", "2", "0">>,
       <<"Play", "Res", "Y", ": ", "1", "0", "8", "0">> >>

ProjectGarbageText == << <<"Active", " ", "Line", ": ", "1">> >>

DefaultStyle == StyleOf(7, 0, <<10, 20, 30>>)
SignStyle == Ext(StyleOf(8, 2, <<0, 0, 0>>), [name |-> "Sign"])

\* a "Default" with the alignment number SSA scripts write for middle-center
LegacyStyle == StyleOf(10, 0, <<10, 20, 30>>)

\* the Style line of a style: its Alignment field as text
StyleLineOf(st) == [st EXCEPT !.alignment = StrOfInt(@)]

StyleLists ==
    { <<StyleLineOf(DefaultStyle), StyleLineOf(SignStyle)>>, <<StyleLineOf(SignStyle)>>,
      <<StyleLineOf(LegacyStyle)>> }

EventOf(kind, name, start, end) ==
    [kind |-> kind, style |-> name, start |-> start, end |-> end,
     margin_l |-> 0, margin_r |-> 0, margin_v |-> 0, raw_text |-> <<"{", "\\k50", "}", "a">>]

EventLines ==
    { EventOf("Dialogue", "Default", <<0, 0, 1, 0>>, <<0, 0, 2, 0>>),
      EventOf("Dialogue", "Missing", <<0, 0, 1, 50>>, <<0, 0, 3, 0>>),
      EventOf("Comment", "Default", <<0, 0, 2, 50>>, <<0, 0, 4, 0>>) }

\* a file with every section, or with every section but the one named missing
Document(missing, sts, evs) ==
    SelectSeq(<< [name |-> "[Script Info]", body |-> ScriptInfoText],
                 [name |-> "[Aegisub Project Garbage]", body |-> ProjectGarbageText],
                 [name |-> "[V4+ Styles]", body |-> <<FormatLine>> \o sts],
                 [name |-> "[Events]", body |-> <<FormatLine>> \o evs],
                 [name |-> "[Aegisub Extradata]", body |-> << <<Rest("extradata", 1)>> >>],
                 [name |-> "[Fonts]", body |-> << <<Rest("fonts", 1)>> >>] >>,
              LAMBDA sec : sec.name # missing)

InitDoc ==
    /\ LineIdle /\ MetaIdle /\ ToolIdle
    /\ font = FontOf
    /\ vertical_kanji = FALSE
    /\ fix_timestamps = FALSE
    /\ apc = "new"
    /\ \E missing \in Recognized \cup {"none"}, sts \in StyleLists,
          evs \in UNION {[1..k -> EventLines] : k \in 0..MaxEvents} :
            input_ = Document(missing, sts, evs)
    /\ extended \in BOOLEAN
    /\ sections = <<>>
    /\ ameta = [fps |-> MetaOf.fps]
    /\ heap = <<>> /\ styles = <<>> /\ lines = <<>>
    /\ log = {}
    /\ output_lines = <<>>
    /\ written = None

NextDoc ==
    \/ AssInit
    \/ \E k \in 1..MaxEvents : AddLine(k)
    \/ \E comment_original \in BOOLEAN, keep_extradata \in BOOLEAN :
            Save(comment_original, keep_extradata)

\* the document: construction, add_line, save
SpecDoc == InitDoc /\ [][NextDoc]_vars

InitMeta ==
    /\ LineIdle /\ DocIdle /\ ToolIdle
    /\ font = FontOf
    /\ vertical_kanji = FALSE
    /\ fix_timestamps = FALSE
    /\ mpc = "new"
    /\ cls \in Classes
    /\ mtext \in UNION {[1..k -> MetaLines] : k \in 0..MaxMetaLines}
    /\ record = EmptyRecord
    /\ encoded = <<>>

NextMeta == MetaFromText \/ MetaAsText

\* the schema marshaller: from_text, then as_text
SpecMeta == InitMeta /\ [][NextMeta]_vars

-----------------------------------------------------------------------------
(* Properties: karaoke decomposition and timing (Spec) *)

\* add_syls has run and strip_empty has not touched line.syls
SylsDone == pc \in {"syls", "chars", "err_add_chars"} /\ "syls" \notin stripped

\* the karaoke counts of the raw text, in its order
MarkerCounts(raw) ==
    LET ms == SelectSeq(raw, LAMBDA c : c \in KMarkers)
    IN  [k \in 1..Len(ms) |-> KDur(ms[k])]

\* C1 as stated: the syllables' durations add up to the line's duration
\* (end_time - start_time), whatever the timestamps and the karaoke counts.
C1_SumIsLineDuration ==
    (SylsDone /\ syls # <<>>) => SumSeq(Field(syls, "duration")) = line.duration

\* C1 amended: the syllables' durations add up to the last syllable's end_time,
\* which is the total of the karaoke counts of the text divided by 100; the
\* line's start and end timestamps play no part.
C1_SumIsMarkerTotal ==
    (SylsDone /\ syls # <<>>) =>
        /\ SumSeq(Field(syls, "duration")) = syls[Len(syls)].end_time
        /\ 10 * SumSeq(MarkerCounts(line.raw_text)) = SumSeq(Field(syls, "duration"))

C1_Witness ==
    /\ SylsDone /\ Len(syls) >= 2
    /\ syls[1].duration > 0 /\ syls[2].duration > 0
    /\ SumSeq(Field(syls, "duration")) # line.duration

\* C4: after add_syls the first syllable starts at 0, every syllable ends at its
\* start plus its duration, and each syllable starts where the previous one ends.
C4_SylsContiguous ==
    (SylsDone /\ syls # <<>>) =>
        /\ syls[1].start_time = 0
        /\ \A k \in 1..Len(syls) : syls[k].end_time = syls[k].start_time + syls[k].duration
        /\ \A k \in 1..(Len(syls) - 1) : syls[k].end_time = syls[k + 1].start_time

C4_Witness ==
    /\ SylsDone /\ Len(syls) >= 3
    /\ syls[1].duration > 0 /\ syls[2].duration > 0
    /\ syls[3].start_time = syls[1].duration + syls[2].duration

\* indices of the karaoke markers of the raw text
MarkerPos(raw) ==
    LET idx == [k \in 1..Len(raw) |-> k]
    IN  SelectSeq(idx, LAMBDA k : raw[k] \in KMarkers)

\* the literal text (letters and spaces) of raw between indices lo and hi
LiteralBetween(raw, lo, hi) ==
    SelectSeq(SubSeq(raw, lo, hi), LAMBDA c : c \in Letters \cup {" "})

\* C5: N karaoke markers give exactly N syllables in marker order; syllable i lasts
\* marker i's count / 100 and its text is the literal text between marker i and
\* the next karaoke marker (or the end of the text).
C5_OneSylPerMarker ==
    SylsDone =>
        LET raw == line.raw_text
            mp == MarkerPos(raw)
        IN  /\ Len(syls) = Len(mp)
            /\ \A k \in 1..Len(syls) :
                 /\ syls[k].duration = 10 * KDur(raw[mp[k]])
                 /\ syls[k].text =
                      LiteralBetween(raw, mp[k] + 1,
                                     IF k < Len(mp) THEN mp[k + 1] - 1 ELSE Len(raw))

-----------------------------------------------------------------------------
(* Properties: PList.strip_empty (Spec) *)

AllKept(data) ==
    \A k \in 1..Len(data) : ~IsBlank(data[k].text) /\ data[k].duration > 0

\* C2: after strip_empty, in place or on the returned list, every remaining unit
\* has non-empty trimmed text and a duration greater than 0.
C2_StripLeavesNoEmpty ==
    /\ \A t \in stripped : AllKept(ListOf(t))
    /\ ~ret.none => AllKept(ret.data)

\* C3: strip_empty is idempotent: a second application changes nothing.
C3_StripIdempotent ==
    /\ \A t \in stripped : StripEmptyList(ListOf(t)) = ListOf(t)
    /\ ~ret.none => StripEmptyList(ret.data) = ret.data

-----------------------------------------------------------------------------
(* Properties: layout (SpecLayout) *)

\* the passes that have run, their lists not yet touched by strip_empty
WordsDone == pc \notin {"new", "parsed", "data", "err_add_words"} /\ "words" \notin stripped
CharsDone == pc = "chars" /\ "chars" \notin stripped

\* line still holds what add_data computed (add_chars has not fixed its bounds)
AfterAddData ==
    \/ pc \in {"data", "words", "syls", "err_add_words", "err_add_syls", "err_add_chars"}
    \/ pc = "chars" /\ UnitsAreLTR(style, vertical_kanji)

HasNoMarker(raw) == \A k \in 1..Len(raw) : raw[k] \notin KMarkers

\* C6: for a raw text without karaoke marker add_syls raises nothing and leaves
\* line.syls empty, for every alignment and both values of vertical_kanji, and
\* add_chars then takes the chars from the words.
C6_NoMarkerNoError ==
    HasNoMarker(src.raw_text) =>
        /\ pc # "err_add_syls"
        /\ pc \in {"syls", "chars", "err_add_chars"} => syls = <<>>
        /\ CharsDone => \A k \in 1..Len(chars) : "syl_i" \notin DOMAIN chars[k]

\* C7: after add_data, a margin of the line counting as the style's when it is 0,
\* left is margin_l / play_res_x/2 - width/2 + (margin_l - margin_r)/2 /
\* play_res_x - margin_r - width, top is margin_v / play_res_y/2 - height/2 /
\* play_res_y - margin_v - height, and x, y are left/center/right and
\* top/middle/bottom, each by alignment class.
C7_LinePlacement ==
    AfterAddData =>
        LET an == style.alignment
            ml == IF src.margin_l = 0 THEN style.margin_l ELSE src.margin_l
            mr == IF src.margin_r = 0 THEN style.margin_r ELSE src.margin_r
            mv == IF src.margin_v = 0 THEN style.margin_v ELSE src.margin_v
            w == line.width
            h == line.height
        IN  /\ line.left = CASE an \in {1, 4, 7} -> ml
                             [] an \in {2, 5, 8} ->
                                  meta.play_res_x \div 2 - w \div 2 + (ml - mr) \div 2
                             [] an \in {3, 6, 9} -> meta.play_res_x - mr - w
            /\ line.top = CASE an \in {7, 8, 9} -> mv
                            [] an \in {4, 5, 6} -> meta.play_res_y \div 2 - h \div 2
                            [] an \in {1, 2, 3} -> meta.play_res_y - mv - h
            /\ line.x = CASE an \in {1, 4, 7} -> line.left
                          [] an \in {2, 5, 8} -> line.center
                          [] an \in {3, 6, 9} -> line.right
            /\ line.y = CASE an \in {7, 8, 9} -> line.top
                          [] an \in {4, 5, 6} -> line.middle
                          [] an \in {1, 2, 3} -> line.bottom

\* alignment 5, play_res 1920x1080, zero margins, width 100: left 910, x = center = 960
C7_Witness ==
    /\ AfterAddData /\ style.alignment = 5
    /\ src.margin_l = 0 /\ src.margin_r = 0 /\ src.margin_v = 0
    /\ style.margin_l = 0 /\ style.margin_r = 0 /\ style.margin_v = 0
    /\ meta.play_res_x = 1920 /\ meta.play_res_y = 1080 /\ line.width = 100
    /\ line.left = 910 /\ line.center = 960 /\ line.x = 960

\* the cursor rule of C8 over a list us laid out from the line's left anchor
CursorRule(us, l, space_width, spacing) ==
    \A k \in 1..Len(us) :
        us[k].left =
            (IF k = 1 THEN l.left
             ELSE us[k - 1].left + us[k - 1].width
                  + us[k - 1].postspace * (space_width + spacing) + spacing)
            + us[k].prespace * space_width

\* C8: in each pass that lays its units out left to right, the cursor starts at the
\* line's left, moves by prespace * space_width before a unit (whose left is the
\* cursor then) and by width + postspace * (space_width + spacing) + spacing after
\* it, for every spacing of the style.
C8_CursorAdvance ==
    /\ (WordsDone /\ WordsAreLTR(style)) =>
            CursorRule(words, line, font.space, style.spacing)
    /\ (SylsDone /\ UnitsAreLTR(style, vertical_kanji)) =>
            CursorRule(syls, line, font.space, style.spacing)
    /\ (CharsDone /\ UnitsAreLTR(style, vertical_kanji)) =>
            CursorRule(chars, line, font.space, style.spacing)

\* the units of us sit on the line's row, one after the other
OnLineRow(us, l) ==
    /\ \A k \in 1..Len(us) :
         /\ us[k].top = l.top /\ us[k].middle = l.middle
         /\ us[k].bottom = l.bottom /\ us[k].y = l.y
    /\ \A k \in 1..(Len(us) - 1) : us[k + 1].left >= us[k].right

\* C9: with vertical-kanji mode off (whatever the alignment) or a top/bottom
\* alignment, every word, syllable and char is laid out left to right and has the
\* line's top, middle, bottom and y.
C9_UnitsOnLineRow ==
    (~vertical_kanji \/ an_is_top(style) \/ an_is_bottom(style)) =>
        /\ WordsDone => OnLineRow(words, line)
        /\ SylsDone => OnLineRow(syls, line)
        /\ CharsDone => OnLineRow(chars, line)

\* the horizontal rule of C10 over a list us
CenteredInWidest(us, l, an, play_res_x) ==
    \A k \in 1..Len(us) :
        LET x_fix == (MaxSeq(Field(us, "width")) - us[k].width) \div 2
        IN  CASE an = 4 -> us[k].left = l.left + x_fix
              [] an = 5 -> us[k].center = play_res_x \div 2
              [] an = 6 -> us[k].right = l.right - x_fix

\* C10: in vertical-kanji mode (alignment 4, 5, 6), in each of the three passes and
\* for every margins: alignment 4 puts a unit's left at the line's left plus
\* (max_width - width)/2, alignment 5 its center at play_res_x/2, alignment 6 its
\* right at the line's right minus (max_width - width)/2.
C10_VerticalHorizontal ==
    (vertical_kanji /\ an_is_middle(style)) =>
        /\ WordsDone => CenteredInWidest(words, line, style.alignment, meta.play_res_x)
        /\ SylsDone => CenteredInWidest(syls, line, style.alignment, meta.play_res_x)
        /\ CharsDone => CenteredInWidest(chars, line, style.alignment, meta.play_res_x)

\* add_chars has stacked the chars vertically
CharsStacked == CharsDone /\ ~UnitsAreLTR(style, vertical_kanji) /\ chars # <<>>

\* C11: after add_chars in vertical-kanji mode (alignment 4, 5, 6) each char's top is
\* the previous char's bottom, the block of chars is centred on play_res_y/2, and the
\* line has top = first char's top, bottom = last char's bottom, middle = play_res_y/2,
\* height = sum of the chars' heights, width = the widest char's width,
\* right - left = width and center half way between left and right.
C11_VerticalBlock ==
    CharsStacked =>
        /\ \A k \in 1..(Len(chars) - 1) : chars[k + 1].top = chars[k].bottom
        /\ \A k \in 1..Len(chars) : chars[k].bottom = chars[k].top + chars[k].height
        /\ chars[1].top + chars[Len(chars)].bottom = meta.play_res_y
        /\ line.top = chars[1].top
        /\ line.bottom = chars[Len(chars)].bottom
        /\ 2 * line.middle = meta.play_res_y
        /\ line.height = SumSeq(Field(chars, "height"))
        /\ line.width = MaxSeq(Field(chars, "width"))
        /\ line.right - line.left = line.width
        /\ 2 * line.center = line.left + line.right

\* three chars or more of different widths, stacked, the line narrower than its text
C11_Witness ==
    /\ CharsStacked /\ Len(chars) >= 3
    /\ \E j, k \in 1..Len(chars) : chars[j].width # chars[k].width
    /\ line.width < TextExtents(line.text).width
    /\ chars[3].top = chars[1].top + chars[1].height + chars[2].height

\* the resolutions of the scripts: 16:9 ones, a 4:3 one, one 0.74% off 16:9
Resolutions == {<<1920, 1080>>, <<1280, 720>>, <<480, 270>>, <<1440, 1080>>, <<1920, 1088>>}

\* the styles resample is called on: the built-in default and one with odd sizes
ResampleStyles ==
    {ResampleStyleOf(20, 0, 2, 2, <<10, 10, 10>>),
     ResampleStyleOf(45, 2, 3, 0, <<3, 25, 0>>)}

\* the sources resample accepts and the flag a ScriptInfo carries
ResampleArgs ==
    {a \in [kind : {"Meta", "ScriptInfo", "tuple"}, flag : BOOLEAN, sbas : BOOLEAN] :
        a.kind = "tuple" => ~a.flag}

InitResample ==
    /\ LineIdle /\ DocIdle /\ MetaIdle
    /\ font = FontOf
    /\ vertical_kanji = FALSE
    /\ fix_timestamps = FALSE
    /\ rstyle \in ResampleStyles
    /\ rorig = rstyle
    /\ rargs \in ResampleArgs
    /\ rres \in Resolutions \X Resolutions
    /\ rcalls = <<>>
    /\ TimeIdle /\ MapIdle /\ ShapeIdle

NextResample == \E s, t \in {rres[1], rres[2]} : Resample(s, t)

\* a Style resampled between two resolutions
SpecResample == InitResample /\ [][NextResample]_vars

\* the amounts lines are shifted by, in milliseconds, and the frame rates
ShiftAmounts == {-2000, -500, 500}
FrameRates == {25, 50}

\* the end stamps of the lines that are retimed
RetimedEnds == {<<0, 0, 1, 0>>, <<0, 0, 1, 50>>, <<0, 0, 2, 1>>}

\* a Line as Line.from_text built it
InitTime ==
    /\ DocIdle /\ MetaIdle /\ ResIdle /\ MapIdle /\ ShapeIdle
    /\ pc = "parsed"
    /\ src \in [raw_text : {<<"a">>}, start : StartStamps, end : RetimedEnds,
                margin_l : {0}, margin_r : {0}, margin_v : {0}]
    /\ style = StyleOf(7, 0, <<0, 0, 0>>)
    /\ meta = MetaOf
    /\ font = FontOf
    /\ vertical_kanji = FALSE
    /\ fix_timestamps \in BOOLEAN
    /\ line = FromTextLine(src, meta.fps, fix_timestamps)
    /\ words = <<>> /\ syls = <<>> /\ chars = <<>>
    /\ ret = None /\ stripped = {}
    /\ tcalls = <<>>

NextTime ==
    \/ \E time \in ShiftAmounts : ShiftTime(time)
    \/ \E fps \in FrameRates : ShiftTime0(fps)
    \/ \E input_fps, output_fps \in FrameRates : ChangeFps(input_fps, output_fps)

\* a Line retimed by its own methods
SpecTime == InitTime /\ [][NextTime]_vars

\* the names styles are renamed to, and the Style object that is added
StyleNames == {"Default", "Sign", "Title"}
TitleStyle == Ext(StyleOf(5, 0, <<0, 0, 0>>), [name |-> "Title"])

\* a file with every section, not extended
InitStyles ==
    /\ InitDoc
    /\ extended = FALSE
    /\ \E sts \in StyleLists, evs \in UNION {[1..k -> EventLines] : k \in 0..MaxEvents} :
            input_ = Document("none", sts, evs)

NextStyles ==
    \/ AssInit
    \/ \E k \in DOMAIN styles, name \in StyleNames : RenameStyle(k, name)
    \/ AddStyle(TitleStyle)
    \/ \E k \in DOMAIN styles : RemoveStyle(k)
    \/ StylesMap
    \/ CleanStyles

\* the document's style list edited, its name map read
SpecStyles == InitStyles /\ [][NextStyles]_vars

\* styles with their ScaleX and ScaleY fields
ScaledStyles ==
    << StyleLineOf(Ext(DefaultStyle, [scale_x |-> 100, scale_y |-> 100])),
       StyleLineOf(Ext(SignStyle, [scale_x |-> 100, scale_y |-> 80])) >>

\* the events of the documents shapes are taken from
ShapeEvents ==
    { EventOf("Dialogue", "Default", <<0, 0, 1, 0>>, <<0, 0, 2, 0>>),
      EventOf("Dialogue", "Sign", <<0, 0, 1, 50>>, <<0, 0, 3, 0>>) }

\* the fscx and fscy arguments: each given or left to None
ScaleArgs ==
    {EmptyRecord, [fscx |-> 50], [fscy |-> 200], [fscx |-> 50, fscy |-> 200]}

\* a file with every section whose styles carry their scales, not extended
InitShape ==
    /\ LineIdle /\ MetaIdle /\ ToolIdle
    /\ font = FontOf
    /\ vertical_kanji = FALSE
    /\ fix_timestamps = FALSE
    /\ apc = "new"
    /\ \E evs \in UNION {[1..k -> ShapeEvents] : k \in 1..MaxEvents} :
            input_ = Document("none", ScaledStyles, evs)
    /\ extended = FALSE
    /\ sections = <<>>
    /\ ameta = [fps |-> MetaOf.fps]
    /\ heap = <<>> /\ styles = <<>> /\ lines = <<>>
    /\ log = {}
    /\ output_lines = <<>>
    /\ written = None

NextShape ==
    \/ AssInit
    \/ \E k \in 1..MaxEvents, scales \in ScaleArgs, copy \in BOOLEAN : ToShape(k, scales, copy)
    \/ \E k \in 1..MaxEvents, an \in {5, 7}, scales \in ScaleArgs, copy \in BOOLEAN :
            ToClip(k, an, scales, copy)

\* the lines of a document turned into shapes
SpecShape == InitShape /\ [][NextShape]_vars

-----------------------------------------------------------------------------
(* Properties: the document (SpecDoc) *)

Built == apc \in {"ready", "saved"}

\* the headers of the input file, and the recognized ones it lacks
InputNames == {input_[k].name : k \in 1..Len(input_)}
Absent == Recognized \ InputNames

\* the Style lines and the event lines of the input file
InputStyleLines == IF "[V4+ Styles]" \in InputNames
                   THEN AfterFormat(SectionsOf(input_)["[V4+ Styles]"]) ELSE <<>>
InputStyles == [k \in 1..Len(InputStyleLines) |-> StyleFromText(InputStyleLines[k])]
InputEvents == IF "[Events]" \in InputNames
               THEN AfterFormat(SectionsOf(input_)["[Events]"]) ELSE <<>>

\* C12: constructing an extended document from an input that lacks one of the four
\* sections (and has a dialogue line when it has [Events]) ends without fatal error:
\* a warning is logged for the section, its records are empty or absent, and the
\* records of the sections that are present are built.
C12_MissingSectionNotFatal ==
    (/\ extended /\ apc # "new" /\ Cardinality(Absent) = 1
     /\ "[Events]" \in InputNames => InputEvents # <<>>) =>
        /\ apc # "err_init"
        /\ \A h \in Absent : [kind |-> "no section", what |-> h] \in log
        /\ "[Script Info]" \in Absent <=> "script_info" \notin DOMAIN ameta
        /\ "[Aegisub Project Garbage]" \in Absent <=> "project_garbage" \notin DOMAIN ameta
        /\ Len(styles) = Len(InputStyles)
        /\ Len(lines) = Len(InputEvents)

\* the style list as values, and the "Default" the lines fall back on
StyleValues == [k \in 1..Len(styles) |-> heap[styles[k]]]
FallbackDefault ==
    IF \E k \in 1..Len(InputStyles) : InputStyles[k].name = "Default"
    THEN InputStyles[CHOOSE k \in 1..Len(InputStyles) : InputStyles[k].name = "Default"]
    ELSE BuiltinDefault
Unresolved(name) == \A k \in 1..Len(InputStyles) : InputStyles[k].name # name

SameStyle(j, k) ==
    /\ HasStyle(lines[j]) /\ HasStyle(lines[k])
    /\ heap[lines[j].style].name = heap[lines[k].style].name

\* line p is the line of k's style just before k
Precedes(p, k) ==
    /\ p < k /\ SameStyle(p, k)
    /\ \A j \in (p + 1)..(k - 1) : ~SameStyle(j, k)

\* C14: in extended mode, for L and the line P of its style before it, L.leadin is
\* L.start_time - P.end_time; for L and the line N of its style after it, L.leadout is
\* N.start_time - L.end_time; lines of other styles in between do not count, and
\* P.leadout = L.leadin.
C14_LeadsWithinStyle ==
    (Built /\ extended) =>
        \A p, k \in 1..Len(lines) :
            Precedes(p, k) =>
                /\ lines[k].leadin = TimeSub(lines[k].start_time, lines[p].end_time)
                /\ lines[p].leadout = TimeSub(lines[k].start_time, lines[p].end_time)
                /\ lines[p].leadout = lines[k].leadin

\* two "Default" lines half a second apart, a line of another style between them
C14_Witness ==
    /\ Built /\ extended /\ Len(lines) = 3
    /\ Precedes(1, 3) /\ ~SameStyle(2, 3)
    /\ lines[3].leadin = 500 /\ lines[1].leadout = 500
    /\ lines[3].start_time - lines[2].end_time # 500

FirstOfStyle(k) == HasStyle(lines[k]) /\ \A p \in 1..(k - 1) : ~SameStyle(p, k)
LastOfStyle(k) == HasStyle(lines[k]) /\ \A n \in (k + 1)..Len(lines) : ~SameStyle(k, n)

\* C15 as stated: the leadin of the first line of a style and the leadout of the last
\* one are the duration of one frame, 1/fps seconds.
C15_LeadIsOneFrame ==
    (Built /\ extended) =>
        \A k \in 1..Len(lines) :
            /\ FirstOfStyle(k) => lines[k].leadin * ameta.fps = 1000
            /\ LastOfStyle(k) => lines[k].leadout * ameta.fps = 1000

\* C15: the leadin of the first line of a style and the leadout of the last one are
\* the default lead, round(fps)/fps seconds: one second at a whole frame rate.
C15_LeadIsRoundFpsFrames ==
    (Built /\ extended) =>
        \A k \in 1..Len(lines) :
            /\ FirstOfStyle(k) => lines[k].leadin * ameta.fps = 1000 * ameta.fps
            /\ LastOfStyle(k) => lines[k].leadout * ameta.fps = 1000 * ameta.fps

\* a style with two lines: the first has the default leadin, the last the default leadout
C15_Witness ==
    /\ Built /\ extended
    /\ \E p, k \in 1..Len(lines) :
         /\ Precedes(p, k) /\ FirstOfStyle(p) /\ LastOfStyle(k)
         /\ lines[p].leadin = 1000 /\ lines[k].leadout = 1000
         /\ lines[k].leadin # 1000

\* the lines save wrote under the header name, the blank ones left out
WrittenUnder(name) ==
    LET k == CHOOSE k \in 1..Len(written.text) : written.text[k].name = name
    IN  SelectSeq(written.text[k].body, LAMBDA ln : ln # <<>>)

\* C16: save with comment_original writes under [Events], before the generated
\* lines, each of the K event lines read from the input as a line of its own that
\* starts with "Comment:" and goes on as the original did.
C16_OriginalsCommentedOneByOne ==
    (apc = "saved" /\ written.comment_original /\ "[Events]" \in DOMAIN sections) =>
        LET body == WrittenUnder("[Events]")
            orig == sections["[Events]"]
        IN  body = <<FormatLine>>
                   \o [n \in 1..(Len(orig) - 1) |-> <<Kw("Comment:"), Rest("orig", n + 1)>>]
                   \o output_lines

\* C17: save writes every section of the input that is not one of the four recognized
\* ones, whatever its name, with the lines it had.
C17_UnrecognizedSectionsKept ==
    (apc = "saved" /\ written.keep_extradata) =>
        \A k \in 1..Len(input_) :
            input_[k].name \notin Recognized =>
                \E j \in 1..Len(written.text) :
                    /\ written.text[j].name = input_[k].name
                    /\ written.text[j].body = input_[k].body

-----------------------------------------------------------------------------
(* Properties: the schema marshaller (SpecMeta) *)

\* index of the first ": " of a line, 0 when there is none
FirstSep(ln) == FirstIn(ln, 1, {": "})

\* the name and value of a "Name: Value" line, the name ending at the first ": "
NameOf(ln) == SubSeq(ln, 1, FirstSep(ln) - 1)
ValueOf(ln) == SubSeq(ln, FirstSep(ln) + 1, Len(ln))

\* the line is "Name: Value" and Name is a field of the class
NamesField(c, ln) == FirstSep(ln) # 0 /\ SlotOf(c, Snake(NameOf(ln))) # 0
FieldOf(c, ln) == Annotations(c)[SlotOf(c, Snake(NameOf(ln)))]

\* every line names a field, no field twice, no value holds ": "
OnlyKnownKeys(c, text) ==
    /\ \A k \in 1..Len(text) : NamesField(c, text[k]) /\ LastSep(text[k]) = FirstSep(text[k])
    /\ \A j, k \in 1..Len(text) : j # k => NameOf(text[j]) # NameOf(text[k])

\* C18: a ScriptInfo or ProjectGarbage text of known keys only, in any order, comes
\* back from from_text then as_text with the same keys in the same order, each with the
\* same key text and value text.
C18_RoundTrip ==
    (mpc = "encoded" /\ OnlyKnownKeys(cls, mtext)) => encoded = mtext

\* C19: from_text assigns a field for every line "Name: Value" whose Name, the text
\* before the first ": ", is a field of the class, the value being all the text after
\* that ": " coerced to the field's type; other lines assign nothing and fields
\* without a line stay absent.
C19_FieldPerLine ==
    mpc \in {"decoded", "encoded"} =>
        /\ \A k \in 1..Len(mtext) :
             NamesField(cls, mtext[k]) =>
                /\ FieldOf(cls, mtext[k]).attr \in DOMAIN record
                /\ (\A j \in (k + 1)..Len(mtext) :
                        ~(NamesField(cls, mtext[j]) /\ FieldOf(cls, mtext[j]) = FieldOf(cls, mtext[k])))
                   => /\ Coerce(FieldOf(cls, mtext[k]).type, ValueOf(mtext[k])).ok
                      /\ record[FieldOf(cls, mtext[k]).attr]
                            = Coerce(FieldOf(cls, mtext[k]).type, ValueOf(mtext[k])).val
        /\ \A a \in DOMAIN record :
             \E k \in 1..Len(mtext) : NamesField(cls, mtext[k]) /\ FieldOf(cls, mtext[k]).attr = a

\* C20: when a line carries a value that cannot be coerced to the type of its field,
\* from_text raises and returns no record; a record it returns never holds a value
\* that is not of the field's type.
C20_UncoercibleAborts ==
    /\ (\E k \in 1..Len(mtext) :
            /\ NamesField(cls, mtext[k])
            /\ ~Coerce(FieldOf(cls, mtext[k]).type, ValueOf(mtext[k])).ok)
       => mpc \in {"new", "err_from_text"} /\ record = EmptyRecord
    /\ \A j \in 1..Len(Annotations(cls)) :
          Annotations(cls)[j].attr \in DOMAIN record =>
              record[Annotations(cls)[j].attr].type = Annotations(cls)[j].type

-----------------------------------------------------------------------------
(* Properties: Style.resample (SpecResample) *)

\* the fields after call k
After(k) == IF k = Len(rcalls) THEN rstyle ELSE rcalls[k + 1].before

\* a is v * n / d rounded to a nearest integer
Nearest(a, v, n, d) ==
    LET q == (v \div d) * n + ((v % d) * n) \div d
        r == ((v % d) * n) % d
    IN  (a = q /\ 2 * r <= d) \/ (a = q + 1 /\ 2 * r >= d)

\* the flag is in effect: the argument is true or the source ScriptInfo says yes
InEffect == rargs.sbas \/ (rargs.kind # "tuple" /\ rargs.flag)

\* C21: resample from (sx, sy) to (tx, ty) sets fontsize and margin_v to the rounded
\* product with ty/sy, margin_l and margin_r to the rounded product with tx/sx, spacing
\* to spacing * tx/sx; scale_x is multiplied by (tx/ty)/(sx/sy) only when the aspect
\* ratios differ by more than 1% of the new one; outline and shadow are scaled by ty/sy
\* only when scaled-border-and-shadow is in effect; every other field is unchanged.
C21_ResampleFields ==
    \A k \in 1..Len(rcalls) :
        LET b == rcalls[k].before
            a == After(k)
            sx == rcalls[k].src[1]
            sy == rcalls[k].src[2]
            tx == rcalls[k].target[1]
            ty == rcalls[k].target[2]
            far == 100 * sx * ty > 101 * tx * sy \/ 100 * sx * ty < 99 * tx * sy
        IN  /\ Nearest(a.fontsize, b.fontsize, ty, sy)
            /\ Nearest(a.margin_v, b.margin_v, ty, sy)
            /\ Nearest(a.margin_l, b.margin_l, tx, sx)
            /\ Nearest(a.margin_r, b.margin_r, tx, sx)
            /\ a.spacing = FracMul(b.spacing, tx, sx)
            /\ IF far
               THEN a.scale_x = FracMul(FracMul(b.scale_x, tx, ty), sy, sx)
               ELSE a.scale_x = b.scale_x
            /\ IF InEffect
               THEN /\ Nearest(a.outline, b.outline, ty, sy)
                    /\ Nearest(a.shadow, b.shadow, ty, sy)
               ELSE a.outline = b.outline /\ a.shadow = b.shadow
            /\ \A f \in {"name", "fontname", "bold", "scale_y", "angle", "alignment", "encoding"} :
                  a[f] = b[f]

\* a call from 16:9 to 4:3 with the flag given by the ScriptInfo alone, and a call
\* between aspect ratios less than 1% apart with no flag at all
C21_Witness ==
    /\ Len(rcalls) = 2
    /\ rargs = [kind |-> "ScriptInfo", flag |-> TRUE, sbas |-> FALSE]
    /\ rcalls[1].src = <<1920, 1080>> /\ rcalls[1].target = <<1440, 1080>>
    /\ rcalls[2].src = <<1440, 1080>> /\ rcalls[2].target = <<1920, 1080>>
    /\ rcalls[2].before.scale_x = Frac(75, 1)
    /\ rcalls[2].before.margin_l = 2
    /\ rstyle.margin_r = 25

Near(a, b) == a - b <= 1 /\ b - a <= 1

\* C22: resampling a style from A to B and then from B to A returns fontsize,
\* margin_l, margin_r, margin_v, outline and shadow each within 1 unit of the original.
C22_RoundTripWithinOne ==
    (/\ Len(rcalls) = 2
     /\ rcalls[2].src = rcalls[1].target /\ rcalls[2].target = rcalls[1].src) =>
        /\ Near(rstyle.fontsize, rorig.fontsize)
        /\ Near(rstyle.margin_l, rorig.margin_l)
        /\ Near(rstyle.margin_r, rorig.margin_r)
        /\ Near(rstyle.margin_v, rorig.margin_v)
        /\ rstyle.outline - rorig.outline <= Decimals5
        /\ rorig.outline - rstyle.outline <= Decimals5
        /\ rstyle.shadow - rorig.shadow <= Decimals5
        /\ rorig.shadow - rstyle.shadow <= Decimals5

-----------------------------------------------------------------------------
(* Properties: alignment classes and indices (Spec, SpecLayout) *)

Horizontals(st) == {h \in {"left", "center", "right"} :
                       \/ h = "left" /\ an_is_left(st)
                       \/ h = "center" /\ an_is_center(st)
                       \/ h = "right" /\ an_is_right(st)}
Verticals(st) == {v \in {"top", "middle", "bottom"} :
                     \/ v = "top" /\ an_is_top(st)
                     \/ v = "middle" /\ an_is_middle(st)
                     \/ v = "bottom" /\ an_is_bottom(st)}

\* C23: for every alignment 1 to 9 exactly one of an_is_left, an_is_center,
\* an_is_right holds and exactly one of an_is_top, an_is_middle, an_is_bottom.
C23_AlignmentPartition ==
    style.alignment \in 1..9 =>
        /\ Cardinality(Horizontals(style)) = 1
        /\ Cardinality(Verticals(style)) = 1

\* a line of alignment 5 placed by add_data: center and middle, nothing else
C23_Witness ==
    /\ pc = "data" /\ style.alignment = 5
    /\ Horizontals(style) = {"center"} /\ Verticals(style) = {"middle"}
    /\ line.x = line.center /\ line.y = line.middle

\* x of every unit of us is its left, center or right as the alignment says
XByAlignment(us, an) ==
    \A k \in 1..Len(us) :
        us[k].x = CASE an \in {1, 4, 7} -> us[k].left
                    [] an \in {2, 5, 8} -> us[k].center
                    [] an \in {3, 6, 9} -> us[k].right

\* C24: every Style of a constructed document has its alignment in 1..9, so that no
\* line is laid out with an alignment for which all six alignment-class predicates
\* are false.
C24_AlignmentInRange ==
    Built =>
        /\ \A k \in 1..Len(heap) : heap[k].alignment \in 1..9
        /\ \A k \in 1..Len(lines) :
              (HasStyle(lines[k]) /\ "x" \in DOMAIN lines[k]) =>
                  Horizontals(heap[lines[k].style]) \cup Verticals(heap[lines[k].style]) # {}

\* C25: in the passes laid out left to right, every word, syllable and char has x
\* equal to its left in a left-aligned style (1, 4, 7), to its center in a centred
\* one (2, 5, 8), to its right in a right-aligned one (3, 6, 9).
C25_XFollowsAlignment ==
    /\ (WordsDone /\ WordsAreLTR(style)) => XByAlignment(words, style.alignment)
    /\ (SylsDone /\ UnitsAreLTR(style, vertical_kanji)) => XByAlignment(syls, style.alignment)
    /\ (CharsDone /\ UnitsAreLTR(style, vertical_kanji)) => XByAlignment(chars, style.alignment)

NonSpace(t) == SelectSeq(t, LAMBDA c : ~IsSpace(c))

\* the text before the first tag block
PlainPrefix(raw) ==
    LET o == FirstIn(raw, 1, {"{"})
    IN  IF o = 0 THEN raw ELSE SubSeq(raw, 1, o - 1)

\* the letters of the line that come before syllable k, and those up to its end
LettersBefore(k) ==
    Len(NonSpace(PlainPrefix(src.raw_text) \o Concat([j \in 1..(k - 1) |-> syls[j].text])))
LettersUpTo(k) == LettersBefore(k) + Len(NonSpace(syls[k].text))

\* the index in line.words (from 0) of the word that holds the n-th letter (from 1)
WordOfLetter(n) ==
    CHOOSE w \in 0..(Len(words) - 1) :
        /\ Len(Concat([j \in 1..w |-> words[j].text])) < n
        /\ n <= Len(Concat([j \in 1..(w + 1) |-> words[j].text]))

\* the syllables and the text before them make up the words, letter for letter
SylsCoverWords ==
    Concat(Field(words, "text"))
        = NonSpace(PlainPrefix(src.raw_text) \o Concat(Field(syls, "text")))

\* C26: every syllable that has letters, all of one word, carries in word_i the
\* index in line.words of that word, also when plain text precedes the first
\* karaoke marker and when another syllable is only whitespace.
C26_WordIndexOfSyllable ==
    (WordsDone /\ SylsDone /\ SylsCoverWords) =>
        \A k \in 1..Len(syls) :
            (/\ NonSpace(syls[k].text) # <<>>
             /\ WordOfLetter(LettersBefore(k) + 1) = WordOfLetter(LettersUpTo(k))) =>
                syls[k].word_i = WordOfLetter(LettersBefore(k) + 1)

\* C27: after add_chars the chars are numbered in order, line.chars[k].i = k (from
\* 0), whether they come from syllables or from words and however many characters
\* each of those has.
C27_CharIndices ==
    CharsDone => \A k \in 1..Len(chars) : chars[k].i = k - 1

-----------------------------------------------------------------------------
(* Properties: retiming (SpecTime) *)

\* C28: duration = end_time - start_time holds after construction and after any
\* sequence of shift_time, shift_time0 and change_fps calls, also when a negative
\* shift is clamped at zero.
C28_DurationIsEndMinusStart ==
    pc = "parsed" => line.duration = line.end_time - line.start_time

-----------------------------------------------------------------------------
(* Properties: the style map (SpecStyles) *)

\* C29: whatever renames, additions and removals came before, styles_map returns
\* the map from the current name of each current style to that style, never a
\* map memoized from earlier names.
C29_StylesMapIsCurrent == [][StylesMap => smap' = NameMap(heap, styles)]_vars

-----------------------------------------------------------------------------
(* Properties: shapes (SpecShape) *)

\* C30: to_shape and to_clip, with fscx or fscy given and with either value of
\* copy, return with scale_x and scale_y of every Style of the document, the one
\* the receiver shares with other lines included, as they were before the call.
C30_ScalesRestored ==
    [][apc = "ready" =>
         \A id \in DOMAIN heap :
             /\ heap'[id].scale_x = heap[id].scale_x
             /\ heap'[id].scale_y = heap[id].scale_y]_vars

====
